---- MODULE Spec2Model ----
(***************************************************************************)
(* Visualization core of the 3D rocket engine simulator: engine mesh       *)
(* builder, overlay controller (normal / heatmap / stress / flow /         *)
(* cooling), cooling cutaway, exhaust plume and internal-flow particles.   *)
(*                                                                         *)
(* Every JavaScript module keeps its state in module-level `let`           *)
(* variables; each module is one TLA+ variable holding a record of them.   *)
(* A function of the program is an operator from the whole program state   *)
(* (the record `S`) to the state it leaves behind, so that a handler is    *)
(* the composition of the calls it makes, in the order of the source.      *)
(***************************************************************************)
EXTENDS Integers, Sequences, FiniteSets, TLC

VARIABLES
    app,      \* main entry point: vizMode, simRunning, lastSimData, lastMeshData
    ui,       \* ui_panels: currentCooling
    mesh,     \* engine_mesh: outerMesh, innerMesh, currentGroup, stationCount, circumSegments
    scene,    \* children of the THREE.Scene
    heat,     \* heat_map: originalMaterial, heatMaterial
    stress,   \* stress_overlay: originalMaterial, stressMaterial
    fviz,     \* flow_viz: coolantArrows, flowColorsApplied
    cool,     \* cooling_viz: cutawayGroup, crossSectionGroup, channel shader state
    flame,    \* flame_particles: particleSystem, particleMaterial, lifetimes
    iflow,    \* internal_flow: particleSystem, textures, lifetimes, _maxVelocity
    gpu,      \* every geometry / material / texture: live, disposed, disposed twice
    hist,     \* what the last handler did: calls in order, exception, overflow
    lathe,    \* a direct call of createLatheGeometry: arguments and result
    calc,     \* a direct call of a pure function: its name, arguments and result
    ws,       \* ws_client: the WSClient, the sockets it created, its pending timers
    deb       \* utils: one debounce(fn, ms) closure and the timeouts it has set

vars ==
    <<app, ui, mesh, scene, heat, stress, fviz, cool, flame, iflow, gpu, hist, lathe, calc,
      ws, deb>>

----------------------------------------------------------------------------
(* Bounds of the model *)

MaxBuilds == 2        \* mesh_update messages followed
MaxStations == 4      \* longest profile sent in a mesh_update
MaxSegments == 5      \* largest segment count of a direct lathe call
PoolSize == 1         \* particles followed in each particle pool
LeakCap == 8          \* the count of unowned resources saturates here
ScenarioStations == 50   \* stations of the converging-diverging test profile
MaxSockets == 3       \* WebSockets a client creates
MaxHandlers == 2      \* callbacks registered for one message type
MaxFrames == 2        \* frames and data ticks an internal-flow particle is followed through

(* Program constants *)

PlumeScale == 500             \* lifetime 1.0 of the plume, in units of 0.002
FlowScale == 2500             \* lifetime 1.0 of the internal flow, in units of 0.0004
CircumSegments == 64          \* let circumSegments = 64
IndicatorChannels == 60       \* const nChannels = 60
DefaultChannels == 60         \* COOLING_INPUTS: n_channels default
ColorScale == 1000            \* colour component 1.0, in units of 0.001
TexWidth == 256               \* const TEX_WIDTH = 256

NoObj == 0                    \* a null object reference
NullRes == <<"null", 0, 0>>   \* a null material / resource reference
NoMaterial == [vertexColors |-> FALSE, color |-> <<>>]
NullGroup == [children |-> -1, arcs |-> 0, channelMat |-> NoMaterial]    \* cutawayGroup = null
NullArrows == [parent |-> NoObj, lines |-> 0] \* coolantArrows = null
NoMeshData == [null |-> TRUE, n |-> 0, orifices |-> 0]     \* lastMeshData = null
NoSimData == [null |-> TRUE, wall_temp_inner |-> FALSE, von_mises |-> FALSE,
              mach |-> FALSE, velocity |-> <<>>, cooling |-> FALSE,
              coolant_velocity |-> FALSE, T_coolant |-> FALSE, thrust |-> 0]

Min(a, b) == IF a < b THEN a ELSE b
Max(a, b) == IF a > b THEN a ELSE b

RECURSIVE SeqMax(_)
SeqMax(q) == IF Len(q) = 1 THEN q[1] ELSE Max(q[1], SeqMax(Tail(q)))

----------------------------------------------------------------------------
(* createLatheGeometry(profile2d, segments)                                 *)
(* A profile is a sequence of <<x, r>>; JavaScript index i is TLA+ i + 1.   *)
(* A vertex is kept as <<x, r, j>>: station coordinates and the             *)
(* circumferential step j (theta = j / nCirc * 2 pi).                       *)

\* for (j = 0; j <= nCirc; j++) positions.push(x, r cos, r sin)
LatheRing(x, r, nCirc) == [j1 \in 1..(nCirc + 1) |-> <<x, r, j1 - 1>>]

\* Reading profile2d[i - 1][0] with i = 0 reads a property of undefined.
LatheTangentThrows(nAxial, i) == ~(i < nAxial - 1) /\ i - 1 < 0

RECURSIVE LatheVertices(_, _, _, _)
LatheVertices(profile2d, i, nCirc, acc) ==
    IF ~(i < Len(profile2d)) THEN acc
    ELSE IF LatheTangentThrows(Len(profile2d), i) THEN [acc EXCEPT !.threw = TRUE]
    ELSE LatheVertices(profile2d, i + 1, nCirc,
            [acc EXCEPT !.positions =
                @ \o LatheRing(profile2d[i + 1][1], profile2d[i + 1][2], nCirc)])

\* indices.push(a, c, b, b, c, d)
LatheQuad_dropsD(i, j, nCirc) ==
    LET a == i * (nCirc + 1) + j
        b == a + 1
        c == (i + 1) * (nCirc + 1) + j
    IN  <<a, c, b>>

LatheQuad(i, j, nCirc) ==
    LET a == i * (nCirc + 1) + j
        b == a + 1
        c == (i + 1) * (nCirc + 1) + j
        d == c + 1
    IN  <<a, c, b, b, c, d>>

\* for (j = 0; j < nCirc; j++): the quads of one strip, one after the other
LatheStrip(i, nCirc) ==
    LET width == Len(LatheQuad(i, 0, nCirc))
    IN  [k \in 1..(width * nCirc) |->
            LatheQuad(i, (k - 1) \div width, nCirc)[((k - 1) % width) + 1]]

RECURSIVE LatheIndices(_, _, _, _)
LatheIndices(nAxial, i, nCirc, indices) ==
    IF ~(i < nAxial - 1) THEN indices
    ELSE LatheIndices(nAxial, i + 1, nCirc, indices \o LatheStrip(i, nCirc))

createLatheGeometry(profile2d, segments) ==
    LET v == LatheVertices(profile2d, 0, segments, [threw |-> FALSE, positions |-> <<>>])
    IN  IF v.threw
        THEN [threw |-> TRUE, positions |-> <<>>, indices |-> <<>>]
        ELSE [threw |-> FALSE, positions |-> v.positions,
              indices |-> LatheIndices(Len(profile2d), 0, segments, <<>>)]

\* The profile of a mesh_update with n stations: x grows with the station,
\* the radius narrows to a throat and widens again.
Profile(n) == [i \in 1..n |-> <<i, IF i = 2 THEN 1 ELSE 2>>]

----------------------------------------------------------------------------
(* The program state as one record, and back *)

S == [app |-> app, ui |-> ui, mesh |-> mesh, scene |-> scene, heat |-> heat,
      stress |-> stress, fviz |-> fviz, cool |-> cool, flame |-> flame,
      iflow |-> iflow, gpu |-> gpu, hist |-> hist, lathe |-> lathe, calc |-> calc,
      ws |-> ws, deb |-> deb]

Store(r) ==
    /\ app' = r.app /\ ui' = r.ui /\ mesh' = r.mesh /\ scene' = r.scene
    /\ heat' = r.heat /\ stress' = r.stress /\ fviz' = r.fviz /\ cool' = r.cool
    /\ flame' = r.flame /\ iflow' = r.iflow /\ gpu' = r.gpu /\ hist' = r.hist
    /\ lathe' = r.lathe /\ calc' = r.calc /\ ws' = r.ws /\ deb' = r.deb

\* A handler starts with an empty record of what it did.
Begin(s) ==
    [s EXCEPT !.hist = [calls |-> <<>>, threw |-> FALSE,
                        overflowed |-> {}, doubleDisposed |-> {}, lost |-> {},
                        replaced |-> "none",
                        heatOnto |-> @.heatOnto, phase |-> @.phase]]

Call(s, name) == [s EXCEPT !.hist.calls = Append(@, name)]

Throw(s) == [s EXCEPT !.hist.threw = TRUE]

----------------------------------------------------------------------------
(* GPU resources.  A resource is <<name, generation, index>>; the engine    *)
(* mesh resources carry the generation of their group, a resource an        *)
(* overlay holds in a module variable has generation 0.                     *)

\* new THREE.<Geometry | Material | Texture>(...)
create(s, rid) ==
    [s EXCEPT !.gpu.live = @ \cup {rid}, !.gpu.disposed = @ \ {rid}]

\* rid.dispose()
dispose(s, rid) ==
    IF rid \in s.gpu.disposed
    THEN [s EXCEPT !.hist.doubleDisposed = @ \cup {rid}]
    ELSE [s EXCEPT !.gpu.live = @ \ {rid}, !.gpu.disposed = @ \cup {rid}]

\* The object that rid named before a new object took the name: it keeps
\* its place among the others as <<name, generation, k>>, k = 1, 2, ...
Stale(others, rid) ==
    <<rid[1], rid[2],
      1 + Cardinality({x \in others : x[1] = rid[1] /\ x[2] = rid[2] /\ x[3] > 0})>>

\* variable = new THREE.<...>(...) for a module variable: what the variable
\* held, if it was not disposed, stays live with no reference left to it
createOver(s, rid) ==
    IF rid \in s.gpu.live
    THEN [s EXCEPT !.gpu.live = @ \cup {Stale(@, rid)}]
    ELSE create(s, rid)

\* scene.add(obj) for a new object obj: what was added under that name and
\* never removed stays in the scene
sceneAdd(s, obj) ==
    IF obj \in s.scene
    THEN [s EXCEPT !.scene = @ \cup {Stale(@, obj)}]
    ELSE [s EXCEPT !.scene = @ \cup {obj}]

\* A material that is created, never attached and never disposed.
abandon(s, n) == [s EXCEPT !.gpu.unowned = Min(LeakCap, @ + n)]

\* create(rids[1]); create(rids[2]); ...
createAll(s, rids) ==
    LET made == {rids[k] : k \in 1..Len(rids)}
    IN  [s EXCEPT !.gpu.live = @ \cup made, !.gpu.disposed = @ \ made]

RECURSIVE createAllOver(_, _)
createAllOver(s, rids) ==
    IF rids = <<>> THEN s ELSE createAllOver(createOver(s, Head(rids)), Tail(rids))

\* dispose(rids[1]); dispose(rids[2]); ...  A resource is disposed twice when
\* it was disposed before or when it comes twice in rids.
disposeAll(s, rids) ==
    LET gone == {rids[k] : k \in 1..Len(rids)}
        again == {rid \in gone :
                     \/ rid \in s.gpu.disposed
                     \/ Cardinality({k \in 1..Len(rids) : rids[k] = rid}) > 1}
    IN  [s EXCEPT !.gpu.live = @ \ gone,
                  !.gpu.disposed = @ \cup gone,
                  !.hist.doubleDisposed = @ \cup again]

\* the geometry and the material of every child, in the order of the children
Resources(children) ==
    [k \in 1..(2 * Len(children)) |-> children[(k + 1) \div 2][2 - (k % 2)]]

\* group.traverse(c => { if (c.geometry) c.geometry.dispose();
\*                       if (c.material) c.material.dispose(); })
\* children: the meshes and lines below the group, as <<geometry, material>>.
traverseDispose(s, children) == disposeAll(s, Resources(children))

createChildren(s, children) == createAll(s, Resources(children))

----------------------------------------------------------------------------
(* engine_mesh: buildEngineMesh(meshData, scene, colorHex)                  *)
(* meshData = [n |-> stations of profile_2d and outer_profile_2d,           *)
(*             orifices |-> length of injector_orifices]                    *)
(* A group is known by its generation g = 1, 2, ...; the outer and inner    *)
(* wall meshes of generation g are known by g too.                          *)

OuterMat(g) == <<"outerMat", g, 0>>
HeatMaterial == <<"heatMaterial", 0, 0>>
StressMaterial == <<"stressMaterial", 0, 0>>
ChannelMaterial == <<"channelMaterial", 0, 0>>
CoolantTexture == <<"coolantTexture", 0, 0>>
EngineGroup(g) == <<"engineGroup", g, 0>>

\* createManifoldRing: a ring mesh and an outline, each with its own material
ManifoldRing(g, k) ==
    << <<<<"ringGeo", g, k>>, <<"ringMat", g, k>>>>,
       <<<<"ringLineGeo", g, k>>, <<"ringLineMat", g, k>>>> >>

\* for (let ch = 0; ch < nChannels; ch += showEvery): one line geometry each,
\* all of them with the one channelLineMat
RECURSIVE ChannelLines(_, _, _, _)
ChannelLines(g, ch, showEvery, lines) ==
    IF ~(ch < IndicatorChannels) THEN lines
    ELSE ChannelLines(g, ch + showEvery, showEvery,
            Append(lines, <<<<"channelLineGeo", g, ch>>, <<"channelLineMat", g, 0>>>>))

createCoolingChannelIndicators(g, n) ==
    IF n < 2 THEN <<>>
    ELSE ManifoldRing(g, 1) \o ManifoldRing(g, 2)
         \o ChannelLines(g, 0, Max(1, IndicatorChannels \div 20), <<>>)

\* createInjectorFaceWithOrifices: the face and one marker per orifice
createInjectorFaceWithOrifices(g, orifices) ==
    << <<<<"faceGeo", g, 0>>, <<"faceMat", g, 0>>>> >>
    \o [k \in 1..orifices |-> <<<<"circGeo", g, k>>, <<"circMat", g, k>>>>]

\* the children buildEngineMesh adds up to the place it reaches
WallChildren(g) ==
    << <<<<"outerGeo", g, 0>>, OuterMat(g)>>,
       <<<<"innerGeo", g, 0>>, <<"innerMat", g, 0>>>>,
       <<<<"edgeGeo", g, 0>>, <<"edgeMat", g, 0>>>> >>

CapChildren(g) ==
    << <<<<"chamberCapGeo", g, 0>>, <<"capMat", g, 0>>>>,
       <<<<"nozzleCapGeo", g, 0>>, <<"capMatClone", g, 0>>>> >>

InjectorChildren(g, orifices) ==
    IF orifices > 0
    THEN createInjectorFaceWithOrifices(g, orifices)
    ELSE << <<<<"injectorGeo", g, 0>>, <<"injectorMat", g, 0>>>> >>

BuiltChildren(g, grp) ==
    IF grp.stage = "empty" THEN <<>>
    ELSE IF grp.stage = "walls" THEN WallChildren(g)
    ELSE WallChildren(g) \o CapChildren(g)
         \o createCoolingChannelIndicators(g, grp.n)
         \o InjectorChildren(g, grp.orifices)

\* drawCoolantFlow: a line and an arrow head per circumferential sample
ArrowChildren(arrows) ==
    [k \in 1..arrows.lines |->
        IF k % 2 = 1 THEN <<<<"arrowLineGeo", 0, k>>, <<"arrowLineMat", 0, k>>>>
        ELSE <<<<"arrowHeadGeo", 0, k>>, <<"arrowHeadMat", 0, k>>>>]

\* What group.traverse visits below the current group: the children it was
\* built with, the outer wall with the material it carries now, and the
\* coolant arrows, which drawCoolantFlow adds to outerMesh.parent.
GroupChildren(s) ==
    LET g == s.mesh.currentGroup
        built == BuiltChildren(g, s.mesh.group)
        now == [k \in 1..Len(built) |->
                    IF built[k][2] = OuterMat(g) /\ s.mesh.outerMesh = g
                    THEN <<built[k][1], s.mesh.outer.material>>
                    ELSE built[k]]
    IN  IF s.fviz.coolantArrows # NullArrows /\ s.fviz.coolantArrows.parent = g
        THEN now \o ArrowChildren(s.fviz.coolantArrows)
        ELSE now

\* lines 22-28: remove and dispose the previous group
removeOldMesh(s) ==
    IF s.mesh.currentGroup # NoObj
    THEN [traverseDispose([s EXCEPT !.scene = @ \ {EngineGroup(s.mesh.currentGroup)}],
                          GroupChildren(s))
            EXCEPT !.hist.replaced = s.mesh.group.stage]
    ELSE s

buildEngineMesh(s0, meshData) ==
    LET g == s0.mesh.builds + 1
        s1 == removeOldMesh(Call(s0, "buildEngineMesh"))
        s2 == [s1 EXCEPT !.mesh.currentGroup = g,
                         !.mesh.builds = g,
                         !.mesh.stationCount = meshData.n,
                         !.mesh.group = [stage |-> "empty", n |-> meshData.n,
                                         orifices |-> meshData.orifices]]
        outerGeo == createLatheGeometry(Profile(meshData.n), s0.mesh.circumSegments)
        \* outer wall, inner wall, edge wireframe, capMat
        s3 == [createAll(createChildren(s2, WallChildren(g)), <<<<"capMat", g, 0>>>>)
                 EXCEPT !.mesh.outerMesh = g, !.mesh.innerMesh = g,
                        !.mesh.group.stage = "walls",
                        !.mesh.outer = [material |-> OuterMat(g),
                                        vertices |-> Len(outerGeo.positions)],
                        !.mesh.inner = [vertexColors |-> FALSE, color |-> FALSE]]
        \* end caps, cooling indicators, injector face, scene.add
        s4 == [createChildren(s3, CapChildren(g)
                                  \o createCoolingChannelIndicators(g, meshData.n)
                                  \o InjectorChildren(g, meshData.orifices))
                 EXCEPT !.mesh.group.stage = "full",
                        !.scene = @ \cup {EngineGroup(g)}]
    IN  IF outerGeo.threw THEN Throw(s2)
        ELSE IF meshData.n = 0 THEN Throw(s3)     \* profile2d[0][0] of undefined
        ELSE s4

----------------------------------------------------------------------------
(* heat_map and stress_overlay.  The outer wall mesh that getOuterMesh()    *)
(* returns is the object mesh.outer, built with generation mesh.outerMesh.  *)

OuterMaterial(s) == s.mesh.outer.material

setOuterMaterial(s, mat) == [s EXCEPT !.mesh.outer.material = mat]

applyHeatMap(s0) ==
    LET s == Call(s0, "applyHeatMap")
        s1 == IF s.heat.originalMaterial = NullRes
              THEN [s EXCEPT !.heat.originalMaterial = OuterMaterial(s)]
              ELSE s
        s2 == IF s1.heat.heatMaterial = NullRes
              THEN [create(s1, HeatMaterial) EXCEPT !.heat.heatMaterial = HeatMaterial]
              ELSE s1
        s3 == IF s2.hist.heatOnto = NullRes
              THEN [s2 EXCEPT !.hist.heatOnto = OuterMaterial(s)]
              ELSE s2
    IN  IF s.mesh.outerMesh = NoObj THEN s
        ELSE setOuterMaterial(s3, s3.heat.heatMaterial)

clearHeatMap_keepsOverlay(s0) == Call(s0, "clearHeatMap")

clearHeatMap(s0) ==
    LET s == Call(s0, "clearHeatMap")
    IN  IF s.mesh.outerMesh = NoObj \/ s.heat.originalMaterial = NullRes THEN s
        ELSE setOuterMaterial(s, s.heat.originalMaterial)

applyStressOverlay(s0) ==
    LET s == Call(s0, "applyStressOverlay")
        s1 == IF s.stress.originalMaterial = NullRes
              THEN [s EXCEPT !.stress.originalMaterial = OuterMaterial(s)]
              ELSE s
        s2 == IF s1.stress.stressMaterial = NullRes
              THEN [create(s1, StressMaterial) EXCEPT !.stress.stressMaterial = StressMaterial]
              ELSE s1
    IN  IF s.mesh.outerMesh = NoObj THEN s
        ELSE setOuterMaterial(s2, s2.stress.stressMaterial)

clearStressOverlay_keepsOverlay(s0) == Call(s0, "clearStressOverlay")

clearStressOverlay(s0) ==
    LET s == Call(s0, "clearStressOverlay")
    IN  IF s.mesh.outerMesh = NoObj \/ s.stress.originalMaterial = NullRes THEN s
        ELSE setOuterMaterial(s, s.stress.originalMaterial)

----------------------------------------------------------------------------
(* flow_viz *)

removeCoolantArrows(s) ==
    IF s.fviz.coolantArrows # NullArrows /\ s.fviz.coolantArrows.parent # NoObj
    THEN [traverseDispose(s, ArrowChildren(s.fviz.coolantArrows))
            EXCEPT !.fviz.coolantArrows = NullArrows]
    ELSE [s EXCEPT !.fviz.coolantArrows = NullArrows]

\* the points of one arrow line: stations nStations-1, nStations-1-step, ...
\* whose vertex lies inside the position array of the outer wall
ArrowPoints(s, jSample) ==
    LET nStations == s.mesh.stationCount
        nCirc == s.mesh.circumSegments
        step == Max(1, nStations \div 15)
    IN  Cardinality({i \in 0..(nStations - 1) :
            /\ (nStations - 1 - i) % step = 0
            /\ (i * (nCirc + 1) + jSample) * 3 + 2
                  < 3 * s.mesh.outer.vertices})

drawCoolantFlow(s0) ==
    LET s == removeCoolantArrows(s0)
        nCirc == s.mesh.circumSegments
        circumSamples == <<0, nCirc \div 4, nCirc \div 2, (3 * nCirc) \div 4>>
        drawn == Cardinality({k \in 1..4 : ArrowPoints(s, circumSamples[k]) >= 2})
        arrowGroup == [parent |-> s.mesh.outerMesh, lines |-> 2 * drawn]
    IN  IF s.mesh.outerMesh = NoObj THEN s
        ELSE [createChildren(s, ArrowChildren(arrowGroup))
                EXCEPT !.fviz.coolantArrows = arrowGroup]

\* data: the sim_tick payload; machArray = stations.mach, coolantData = cooling
applyFlowVisualization(s0, data) ==
    LET s == Call(s0, "applyFlowVisualization")
        g == s.mesh.innerMesh
        s1 == [s EXCEPT !.mesh.inner = [vertexColors |-> TRUE, color |-> TRUE],
                        !.fviz.flowColorsApplied = TRUE]
    IN  IF g = NoObj \/ ~data.mach THEN s
        ELSE IF data.cooling /\ data.coolant_velocity THEN drawCoolantFlow(s1)
        ELSE s1

clearFlowViz(s0) ==
    LET s == removeCoolantArrows(Call(s0, "clearFlowViz"))
        g == s.mesh.innerMesh
    IN  IF ~s.fviz.flowColorsApplied THEN s
        ELSE IF g = NoObj THEN [s EXCEPT !.fviz.flowColorsApplied = FALSE]
        ELSE [s EXCEPT !.mesh.inner = [vertexColors |-> FALSE, color |-> FALSE],
                       !.fviz.flowColorsApplied = FALSE]

----------------------------------------------------------------------------------------------------------------------------------------
(* Colours of the channel band and of the channel arcs.  A colour is the     *)
(* integer 0xRRGGBB; a temperature is <<>> (undefined) or <<kelvin>>.         *)

FlatChannelColor == 30668      \* 0x0077cc
NeutralArcColor == 34815       \* 0x0088ff
TickCoolant == 450             \* T_coolant_K[idx] of a tick that has the array

\* t = clamp((temp - 300) / 300, 0, 1) = (T - 300) / 300 with T clamped
coolantTempToHex(temp) ==
    IF temp = <<>> THEN NeutralArcColor
    ELSE LET T == Max(300, Min(600, temp[1]))
         IN  ((255 * (T - 300)) \div 300) * 65536
                 + ((128 * 300 - 64 * (T - 300)) \div 300) * 256
                 + ((255 * (600 - T)) \div 300)

----------------
(* cooling_viz.  cutawayGroup and crossSectionGroup are NullGroup or hold     *)
(* the number of meshes and lines in the group; every one of them has a      *)
(* geometry and a material of its own.  The channel arcs of a cross-section  *)
(* are made together and released together: they are kept as one child      *)
(* whose resources stand for `arcs` geometries and `arcs` materials.         *)

CutawayChildren(group) ==
    [k \in 1..group.children |-> <<<<"cutawayGeo", 0, k>>, <<"cutawayMat", 0, k>>>>]

CrossSectionChildren(group) ==
    [k \in 1..(group.children - group.arcs) |->
        <<<<"sectionGeo", 0, k>>, <<"sectionMat", 0, k>>>>]
    \o (IF group.arcs > 0
        THEN << <<<<"sectionArcGeo", 0, group.arcs>>, <<"sectionArcMat", 0, group.arcs>>>> >>
        ELSE <<>>)

\* how many resources a resource name stands for
Weight(rid) == IF rid[1] \in {"sectionArcGeo", "sectionArcMat"} THEN rid[3] ELSE 1

\* disposeGroup(group) followed by the assignment of null
disposeCutaway(s) ==
    IF s.cool.cutawayGroup = NullGroup THEN s
    ELSE [traverseDispose([s EXCEPT !.scene = @ \ {<<"cutawayGroup", 0, 0>>}],
                          CutawayChildren(s.cool.cutawayGroup))
            EXCEPT !.cool.cutawayGroup = NullGroup]

removeCrossSection(s) ==
    IF s.cool.crossSectionGroup = NullGroup THEN s
    ELSE [traverseDispose([s EXCEPT !.scene = @ \ {<<"crossSectionGroup", 0, 0>>}],
                          CrossSectionChildren(s.cool.crossSectionGroup))
            EXCEPT !.cool.crossSectionGroup = NullGroup]

\* clearCutawayAndCrossSection forgetting the clipped materials without
\* taking the plane off them
clearCutawayAndCrossSection_keepsClipping(s0) ==
    LET s == disposeCutaway(Call(s0, "clearCutawayAndCrossSection"))
    IN  removeCrossSection(
            [s EXCEPT !.cool.clippedMaterials = <<>>,
                      !.cool.clippingPlane = FALSE,
                      !.cool.localClippingEnabled = FALSE])

clearCutawayAndCrossSection(s0) ==
    LET s == disposeCutaway(Call(s0, "clearCutawayAndCrossSection"))
    IN  removeCrossSection(
            [s EXCEPT !.cool.clipOn = @ \ {s.cool.clippedMaterials[k] :
                                              k \in 1..Len(s.cool.clippedMaterials)},
                      !.cool.clippedMaterials = <<>>,
                      !.cool.clippingPlane = FALSE,
                      !.cool.localClippingEnabled = FALSE])

\* clearCoolingViz with the references to the released shader kept
clearCoolingViz_keepsReferences(s0) ==
    LET s == clearCutawayAndCrossSection(Call(s0, "clearCoolingViz"))
        s1 == IF s.cool.channelMaterial # NullRes
              THEN dispose(s, s.cool.channelMaterial) ELSE s
    IN  IF s.cool.channelShaderActive
        THEN IF s1.cool.coolantTexture # NullRes
             THEN dispose(s1, s1.cool.coolantTexture) ELSE s1
        ELSE s

clearCoolingViz(s0) ==
    LET s == clearCutawayAndCrossSection(Call(s0, "clearCoolingViz"))
        s1 == IF /\ s.mesh.outerMesh # NoObj
                 /\ s.cool.savedOuterMaterial # NullRes
                 /\ s.cool.channelMaterial # NullRes
                 /\ OuterMaterial(s) = s.cool.channelMaterial
              THEN setOuterMaterial(s, s.cool.savedOuterMaterial)
              ELSE s
        s2 == IF s1.cool.channelMaterial # NullRes
              THEN [dispose(s1, s1.cool.channelMaterial) EXCEPT !.cool.channelMaterial = NullRes]
              ELSE s1
        s3 == IF s2.cool.coolantTexture # NullRes
              THEN [dispose(s2, s2.cool.coolantTexture) EXCEPT !.cool.coolantTexture = NullRes]
              ELSE s2
    IN  IF s.cool.channelShaderActive
        THEN [s3 EXCEPT !.cool.savedOuterMaterial = NullRes,
                        !.cool.channelShaderActive = FALSE]
        ELSE s

\* coolantData = the cooling record of the tick; temps = coolantData?.T_coolant_K
applyChannelShader(s0, data) ==
    LET s == Call(s0, "applyChannelShader")
        temps == data.cooling /\ data.T_coolant
        s1 == IF s.cool.coolantTexture # NullRes THEN dispose(s, s.cool.coolantTexture) ELSE s
        s2 == [create(s1, CoolantTexture) EXCEPT !.cool.coolantTexture = CoolantTexture]
        s3 == IF s2.cool.channelMaterial # NullRes
              THEN dispose(s2, s2.cool.channelMaterial) ELSE s2
        fresh == [setOuterMaterial(create(s3, ChannelMaterial), ChannelMaterial)
                    EXCEPT !.cool.savedOuterMaterial = OuterMaterial(s),
                           !.cool.channelMaterial = ChannelMaterial,
                           !.cool.hasCoolantData = temps]
        updated == [s2 EXCEPT !.cool.hasCoolantData = temps]
    IN  IF s.mesh.outerMesh = NoObj THEN s
        ELSE [(IF s.cool.channelMaterial = NullRes \/ OuterMaterial(s) # s.cool.channelMaterial
               THEN fresh ELSE updated)
                EXCEPT !.cool.channelShaderActive = TRUE]

\* buildSectionFace: n = meshData.station_x.length.  wallMat, closeMat,
\* lineMat and chLineMat are created and only their clones are attached.
SectionFaceChildren(n) ==
    LET step == Max(1, n \div 12)
        arrowPts == Cardinality({i \in 0..(n - 1) : (n - 1 - i) % step = 0})
    IN  IF n < 2 THEN 0
        ELSE 2 * (3 + 4) + 2 * (IF arrowPts >= 2 THEN 2 ELSE 0)

\* the channel strip's material with vertex colours whatever the tick holds
StripMaterial_alwaysVertexColors(temps) == [vertexColors |-> TRUE, color |-> <<>>]

\* chMat of the channel strip; temps = coolantData?.T_coolant_K is truthy
StripMaterial(temps) ==
    IF temps THEN [vertexColors |-> TRUE, color |-> <<>>]
    ELSE [vertexColors |-> FALSE, color |-> <<FlatChannelColor>>]

buildSectionFace(s, n, data) ==
    LET g == [children |-> SectionFaceChildren(n), arcs |-> 0,
              channelMat |-> IF n < 2 THEN NoMaterial
                             ELSE StripMaterial(data.cooling /\ data.T_coolant)]
    IN  IF n < 2 THEN [s EXCEPT !.cool.cutawayGroup = g]
        ELSE [abandon(createChildren(s, CutawayChildren(g)), 4)
                EXCEPT !.cool.cutawayGroup = g]

enableCutaway(s0, data) ==
    LET s == Call(s0, "enableCutaway")
        group == s.mesh.currentGroup
        children == IF group = NoObj THEN <<>> ELSE GroupChildren(s)
        mats == [k \in 1..Len(children) |-> children[k][2]]
        s1 == [s EXCEPT !.cool.localClippingEnabled = TRUE,
                        !.cool.clippingPlane = TRUE,
                        !.cool.clipOn = @ \cup {mats[k] : k \in 1..Len(mats)},
                        !.cool.clippedMaterials = @ \o mats]
    IN  [buildSectionFace(s1, s.app.lastMeshData.n, data)
            EXCEPT !.scene = @ \cup {<<"cutawayGroup", 0, 0>>}]

showCoolingViz(s0, data) ==
    LET s == clearCutawayAndCrossSection(Call(s0, "showCoolingViz"))
    IN  IF ~s.ui.cooling.enabled THEN clearCoolingViz(s)
        ELSE enableCutaway(applyChannelShader(s, data), data)

\* buildCrossSectionRing: wall ring, one arc per channel, hot ring, 4 outlines
buildCrossSectionRing(nCh, coolantTempAtStation) ==
    [children |-> 1 + nCh + 1 + 4, arcs |-> nCh,
     channelMat |-> [vertexColors |-> FALSE,
                     color |-> <<coolantTempToHex(coolantTempAtStation)>>]]

\* coolantData?.T_coolant_K?.[idx]: <<>> is undefined
CoolantAt(data) == IF data.cooling /\ data.T_coolant THEN <<TickCoolant>> ELSE <<>>

showCrossSection(s0) ==
    LET s == removeCrossSection(Call(s0, "showCrossSection"))
        ring == buildCrossSectionRing(s.ui.cooling.n_channels, CoolantAt(s.app.lastSimData))
    IN  IF ~s.ui.cooling.enabled \/ s.app.lastMeshData.null THEN s
        ELSE [createChildren(s, CrossSectionChildren(ring))
                EXCEPT !.cool.crossSectionGroup = ring,
                       !.scene = @ \cup {<<"crossSectionGroup", 0, 0>>}]

----------------------------------------------------------------------------
(* flame_particles.  Lifetimes are fixed-point: PlumeScale stands for 1.0.  *)
(* All PARTICLE_COUNT particles are treated alike by the code; the model    *)
(* follows flame.pool of them.                                              *)

FlameGeo == <<"flameGeo", 0, 0>>
FlameMat == <<"flameMat", 0, 0>>

\* lifetimes[i] = Math.random()
resetParticle_keepsLifetime(lifetimes, i, random) == lifetimes

resetParticle(lifetimes, i, random) == [lifetimes EXCEPT ![i] = random]

\* randoms[i]: the Math.random() that staggers particle i, in 0..PlumeScale-1
createFlameSystem(s, randoms) ==
    LET s1 == IF s.flame.particleSystem
              THEN dispose(dispose([s EXCEPT !.scene = @ \ {<<"flame", 0, 0>>}], FlameGeo),
                           FlameMat)
              ELSE s
    IN  [sceneAdd(createOver(createOver(s1, FlameGeo), FlameMat), <<"flame", 0, 0>>)
            EXCEPT !.flame.particleSystem = TRUE,
                   !.flame.visible = TRUE,
                   !.flame.lifetimes = randoms]

setFlameVisible(s, visible) ==
    IF s.flame.particleSystem THEN [s EXCEPT !.flame.visible = visible] ELSE s

\* speed = 0.006 + thrustScale * 0.008, thrustScale = quarters / 4
FlameSpeed(quarters) == (3 * PlumeScale) \div 500 + (quarters * PlumeScale) \div 500

\* jitter[i]: Math.random() * 0.002, rebirth[i]: the Math.random() of resetParticle
RECURSIVE advanceFlame(_, _, _, _, _)
advanceFlame(s, i, speed, jitter, rebirth) ==
    IF ~(i < Len(s.flame.lifetimes)) THEN s
    ELSE LET moved == [s.flame.lifetimes EXCEPT ![i + 1] = @ + speed + jitter[i + 1]]
         IN  advanceFlame(
                 IF moved[i + 1] > PlumeScale
                 THEN [s EXCEPT !.flame.lifetimes = resetParticle(moved, i + 1, rebirth[i + 1]),
                                !.hist.overflowed = @ \cup {i + 1}]
                 ELSE [s EXCEPT !.flame.lifetimes = moved],
                 i + 1, speed, jitter, rebirth)

updateFlame(s, quarters, jitter, rebirth) ==
        IF ~s.flame.particleSystem THEN s
        ELSE advanceFlame(s, 0, FlameSpeed(quarters), jitter, rebirth)

----------------------------------------------------------------------------
(* internal_flow.  FlowScale stands for lifetime 1.0.                       *)

FlowResources ==
    << <<"flowRadiusTex", 0, 0>>, <<"flowVelocityTex", 0, 0>>,
       <<"flowTemperatureTex", 0, 0>>, <<"flowStationXTex", 0, 0>>,
       <<"flowGeo", 0, 0>>, <<"flowMat", 0, 0>> >>

removeInternalFlow(s) ==
    LET s1 == IF s.iflow.particleSystem
              THEN dispose([s EXCEPT !.scene = @ \ {<<"internalFlow", 0, 0>>}],
                           <<"flowGeo", 0, 0>>)
              ELSE s
        s2 == IF s.iflow.particleMaterial THEN dispose(s1, <<"flowMat", 0, 0>>) ELSE s1
        s3 == IF s.iflow.textures THEN disposeAll(s2, SubSeq(FlowResources, 1, 4)) ELSE s2
    IN  [s3 EXCEPT !.iflow.particleSystem = FALSE,
                   !.iflow.particleMaterial = FALSE,
                   !.iflow.textures = FALSE]

createInternalFlow(s, randoms) ==
    LET s1 == IF s.iflow.particleSystem THEN removeInternalFlow(s) ELSE s
    IN  [sceneAdd(createAllOver(s1, FlowResources), <<"internalFlow", 0, 0>>)
            EXCEPT !.iflow.particleSystem = TRUE,
                   !.iflow.particleMaterial = TRUE,
                   !.iflow.textures = TRUE,
                   !.iflow.visible = TRUE,
                   !.iflow.lifetimes = randoms]

setInternalFlowVisible(s, visible) ==
    IF s.iflow.particleSystem THEN [s EXCEPT !.iflow.visible = visible] ELSE s

\* dt = 0.012
FlowDt == (12 * FlowScale) \div 1000

\* lifetimes[i] += dt * (0.3 + 0.7 * localVel / _maxVelocity), localVel
\* interpolated between the stations around t * (nStations - 1); the sum is
\* rounded down to the fixed-point grid.
FlowStep(lifetime, velocity, maxVelocity) ==
    LET nStations == Len(velocity)
        srcIdx == lifetime * (nStations - 1)
        lo == srcIdx \div FlowScale
        hi == Min(lo + 1, nStations - 1)
        frac == srcIdx % FlowScale
        localVel == velocity[lo + 1] * (FlowScale - frac) + velocity[hi + 1] * frac
    IN  (FlowDt * 3) \div 10
        + (FlowDt * 7 * localVel) \div (10 * FlowScale * maxVelocity)

\* if (lifetimes[i] >= 1.0) lifetimes[i] -= 1.0
FlowWrap(lifetime) == IF lifetime >= FlowScale THEN lifetime - FlowScale ELSE lifetime

\* stations: lastMeshData.station_x.length; velocity: stations.velocity_m_s
updateInternalFlow(s, stations, velocity) ==
    LET maxVelocity == Max(SeqMax(velocity), 1)
        s1 == Call(s, "updateInternalFlow")
    IN  IF ~s.iflow.particleSystem \/ ~s.iflow.particleMaterial THEN s1
        ELSE IF stations < 2 THEN s1
        ELSE [s1 EXCEPT !.iflow.maxVelocity = maxVelocity,
                        !.iflow.lifetimes =
                            [i \in DOMAIN @ |-> FlowWrap(@[i] + FlowStep(@[i], velocity, maxVelocity))]]

\* the frame advance stepping by the station velocities, as the data tick does
advanceInternalFlowParticles_stationSpeed(s) ==
    LET s1 == Call(s, "advanceInternalFlowParticles")
        velocity == s.app.lastSimData.velocity
    IN  IF ~s.iflow.particleSystem \/ s.iflow.maxVelocity <= 0 \/ Len(velocity) < 2 THEN s1
        ELSE [s1 EXCEPT !.iflow.lifetimes =
                            [i \in DOMAIN @ |->
                                FlowWrap(@[i] + FlowStep(@[i], velocity, s.iflow.maxVelocity))]]

\* lifetimes[i] += dt * 0.6
advanceInternalFlowParticles(s) ==
    LET s1 == Call(s, "advanceInternalFlowParticles")
    IN  IF ~s.iflow.particleSystem \/ s.iflow.maxVelocity <= 0 THEN s1
        ELSE [s1 EXCEPT !.iflow.lifetimes =
                            [i \in DOMAIN @ |-> FlowWrap(@[i] + (FlowDt * 6) \div 10)]]

----------------------------------------------------------------------------
(* main entry point: applyVisualization and the handlers                    *)

Range(q) == {q[k] : k \in 1..Len(q)}

\* "Clear all overlays first"
clearAll_skipsFlowViz(s) ==
    LET s1 == clearStressOverlay(clearHeatMap(s))
        s2 == IF s.app.vizMode # "cooling" THEN clearCoolingViz(s1) ELSE s1
    IN  IF s.app.vizMode # "flow" THEN setInternalFlowVisible(s2, FALSE) ELSE s2

clearAll(s) ==
    LET s1 == clearFlowViz(clearStressOverlay(clearHeatMap(s)))
        s2 == IF s.app.vizMode # "cooling" THEN clearCoolingViz(s1) ELSE s1
    IN  IF s.app.vizMode # "flow" THEN setInternalFlowVisible(s2, FALSE) ELSE s2

\* the if / else-if chain on vizMode
applyMode(s) ==
    LET data == s.app.lastSimData
    IN  IF s.app.vizMode = "heatmap" /\ data.wall_temp_inner THEN applyHeatMap(s)
        ELSE IF s.app.vizMode = "stress" /\ data.von_mises THEN applyStressOverlay(s)
        ELSE IF s.app.vizMode = "flow" /\ data.mach
             THEN setInternalFlowVisible(applyFlowVisualization(s, data), s.app.simRunning)
        ELSE IF s.app.vizMode = "cooling" /\ ~s.app.lastMeshData.null
             THEN showCrossSection(showCoolingViz(s, data))
        ELSE s

\* History only: how far the last applications have come along
\* Thermal (1), then Stress (2), then None (3).
notePhase(s) ==
    LET did == Range(s.hist.calls)
        was == s.hist.phase
        now == IF "applyHeatMap" \in did /\ s.hist.heatOnto # NullRes THEN 1
               ELSE IF "applyStressOverlay" \in did /\ was \in {1, 2} THEN 2
               ELSE IF s.app.vizMode = "normal" /\ was \in {2, 3} THEN 3
               ELSE 0
    IN  [s EXCEPT !.hist.phase = now]

applyVisualization(s0) ==
    LET s == Call(s0, "applyVisualization")
    IN  IF s.app.lastSimData.null THEN s
        ELSE notePhase(applyMode(clearAll(s)))

\* plumeRandoms, flowRandoms: the Math.random() of every followed particle
onMeshUpdate(s0, data, plumeRandoms, flowRandoms) ==
    LET s1 == buildEngineMesh([s0 EXCEPT !.app.lastMeshData = data], data)
        s2 == setFlameVisible(createFlameSystem(s1, plumeRandoms), s1.app.simRunning)
    IN  IF s1.hist.threw THEN s1
        ELSE setInternalFlowVisible(createInternalFlow(s2, flowRandoms),
                                    s2.app.simRunning /\ s2.app.vizMode = "flow")

onSimTick(s0, data) ==
    LET s1 == [Call(s0, "onSimTick") EXCEPT !.app.lastSimData = data]
        s2 == IF ~s1.app.lastMeshData.null /\ data.mach
              THEN setInternalFlowVisible(
                       updateInternalFlow(s1, s1.app.lastMeshData.n, data.velocity),
                       s1.app.simRunning /\ s1.app.vizMode = "flow")
              ELSE s1
    IN  applyVisualization(s2)

vizButtonClick(s0, mode) == applyVisualization([s0 EXCEPT !.app.vizMode = mode])

\* the slider handler clearing the cutaway before it shows the ring
sectionSliderInput_clearsCutaway(s) ==
    IF s.app.vizMode = "cooling" /\ ~s.app.lastMeshData.null /\ ~s.app.lastSimData.null
    THEN showCrossSection(clearCutawayAndCrossSection(s))
    ELSE s

sectionSliderInput(s) ==
    IF s.app.vizMode = "cooling" /\ ~s.app.lastMeshData.null /\ ~s.app.lastSimData.null
    THEN showCrossSection(s)
    ELSE s

\* thrust / maxThrust, capped at 1.0, in quarters
animate(s0, jitter, rebirth) ==
    LET s == Call(s0, "onAnimate")
        s1 == IF s.app.simRunning /\ ~s.app.lastMeshData.null
              THEN updateFlame(s, Min(s.app.lastSimData.thrust, 4), jitter, rebirth)
              ELSE s
    IN  IF s1.app.vizMode = "flow" /\ s1.app.simRunning
        THEN advanceInternalFlowParticles(s1)
        ELSE s1

startSimulation(s) == setFlameVisible([s EXCEPT !.app.simRunning = TRUE], TRUE)

stopSimulation(s) == setFlameVisible([s EXCEPT !.app.simRunning = FALSE], FALSE)

coolingCheckboxChange(s) == [s EXCEPT !.ui.cooling.enabled = ~@]

----------------------------------------------------------------------------
(* What the program can still reach.  A resource no variable, group or      *)
(* mesh refers to can never be disposed again: when a handler returns it    *)
(* leaves the books, as lost if it was never disposed.                      *)

OverlayNames ==
    {"heatMaterial", "stressMaterial", "channelMaterial", "coolantTexture",
     "cutawayGeo", "cutawayMat", "sectionGeo", "sectionMat",
     "sectionArcGeo", "sectionArcMat",
     "arrowLineGeo", "arrowLineMat", "arrowHeadGeo", "arrowHeadMat"}

Reachable(s) ==
    {s.heat.originalMaterial, s.heat.heatMaterial,
     s.stress.originalMaterial, s.stress.stressMaterial,
     s.cool.channelMaterial, s.cool.coolantTexture, s.cool.savedOuterMaterial}
    \cup Range(s.cool.clippedMaterials)
    \cup (IF s.mesh.currentGroup # NoObj THEN Range(Resources(GroupChildren(s))) ELSE {})
    \cup (IF s.mesh.outerMesh # NoObj
          THEN {<<"outerGeo", s.mesh.outerMesh, 0>>, s.mesh.outer.material} ELSE {})
    \cup (IF s.mesh.innerMesh # NoObj
          THEN {<<"innerGeo", s.mesh.innerMesh, 0>>, <<"innerMat", s.mesh.innerMesh, 0>>}
          ELSE {})
    \cup (IF s.fviz.coolantArrows # NullArrows
          THEN Range(Resources(ArrowChildren(s.fviz.coolantArrows))) ELSE {})
    \cup (IF s.cool.cutawayGroup # NullGroup
          THEN Range(Resources(CutawayChildren(s.cool.cutawayGroup))) ELSE {})
    \cup (IF s.cool.crossSectionGroup # NullGroup
          THEN Range(Resources(CrossSectionChildren(s.cool.crossSectionGroup)))
          ELSE {})
    \cup (IF s.flame.particleSystem THEN {FlameGeo, FlameMat} ELSE {})
    \cup (IF s.iflow.particleSystem THEN {FlowResources[5]} ELSE {})
    \cup (IF s.iflow.particleMaterial THEN {FlowResources[6]} ELSE {})
    \cup (IF s.iflow.textures THEN Range(SubSeq(FlowResources, 1, 4)) ELSE {})

Return(s) ==
    LET reach == Reachable(s)
        lost == s.gpu.live \ reach
    IN  [s EXCEPT !.gpu.live = @ \cap reach,
                  !.gpu.disposed = @ \cap reach,
                  !.gpu.unowned =
                      Min(LeakCap, @ + Cardinality({r \in lost : r[1] \in OverlayNames})),
                  !.cool.clipOn = @ \cap reach,
                  !.hist.lost = lost]

----------------------------------------------------------------------------
(* Messages and inputs *)

VizModes == {"normal", "heatmap", "stress", "flow", "cooling"}

\* mesh_update payloads: an empty profile, a single station, a full engine
MeshPayloads ==
    {[null |-> FALSE, n |-> 0, orifices |-> 0],
     [null |-> FALSE, n |-> 1, orifices |-> 0],
     [null |-> FALSE, n |-> MaxStations, orifices |-> 1]}

FullTick ==
    [null |-> FALSE, wall_temp_inner |-> TRUE, von_mises |-> TRUE, mach |-> TRUE,
     velocity |-> <<1, 3, 2>>, cooling |-> TRUE, coolant_velocity |-> TRUE,
     T_coolant |-> TRUE, thrust |-> 4]

\* sim_tick payloads: everything, no cooling record, a cooling record
\* without T_coolant_K, no station arrays
TickPayloads ==
    {FullTick,
     [FullTick EXCEPT !.cooling = FALSE, !.coolant_velocity = FALSE, !.T_coolant = FALSE],
     [FullTick EXCEPT !.T_coolant = FALSE],
     [FullTick EXCEPT !.wall_temp_inner = FALSE, !.von_mises = FALSE, !.mach = FALSE,
                      !.velocity = <<>>]}

\* Math.random() of the plume, on the grid of PlumeScale: the least value,
\* the greatest, and one that is two idle steps short of 1.0
RandomSamples == {0, PlumeScale - 2 * ((3 * PlumeScale) \div 500), PlumeScale - 1}

Draws(pool) == [1..pool -> RandomSamples]

\* Math.random() * 0.002 falls below one unit of the grid
Jitters(pool) == [1..pool -> {0}]

FlowDraws(pool) == [1..pool -> {0, FlowScale \div 2, FlowScale - 1}]

----------------------------------------------------------------------------
(* The state after the module is loaded and DOMContentLoaded has run *)

NoGeometry == [threw |-> FALSE, positions |-> <<>>, indices |-> <<>>]

NoCall == [fn |-> "none", arg |-> <<>>, done |-> FALSE, out |-> <<>>]

MessageTypes == {"mesh_update", "sim_tick"}

\* debounce(fn, ms): `let timer` is undefined, no timeout is set.  Times are
\* in units of 150 ms; age and last are the time since the last call and its
\* arguments, burst the calls since the last invocation of fn (2 for more),
\* fired the invocations since the last call, out and outAge the arguments
\* of the last invocation and the age at which it ran.
debounce(ms) ==
    [ms |-> ms, timer |-> 0, timers |-> {},
     age |-> 0, last |-> "none", burst |-> 0, fired |-> 0,
     out |-> "none", outAge |-> 0, op |-> "new"]

\* new WSClient(url), in a page that has created no socket and set no timer
NewWSClient ==
    [ws |-> 0, handlers |-> [type \in MessageTypes |-> <<>>],
     reconnectDelay |-> 1000, maxReconnectDelay |-> 30000, shouldReconnect |-> TRUE,
     urlAccepted |-> TRUE, sockets |-> <<>>, timers |-> 0,
     op |-> "new", msg |-> [type |-> "none", parsed |-> FALSE, throwing |-> {}],
     delivered |-> <<>>]

InitState ==
    [app |-> [vizMode |-> "normal", simRunning |-> FALSE,
              lastSimData |-> NoSimData, lastMeshData |-> NoMeshData],
     ui |-> [cooling |-> [enabled |-> TRUE, n_channels |-> DefaultChannels]],
     mesh |-> [outerMesh |-> NoObj, innerMesh |-> NoObj, currentGroup |-> NoObj,
               stationCount |-> 0, circumSegments |-> CircumSegments, builds |-> 0,
               group |-> [stage |-> "none", n |-> 0, orifices |-> 0],
               outer |-> [material |-> NullRes, vertices |-> 0],
               inner |-> [vertexColors |-> FALSE, color |-> FALSE]],
     scene |-> {},
     heat |-> [originalMaterial |-> NullRes, heatMaterial |-> NullRes],
     stress |-> [originalMaterial |-> NullRes, stressMaterial |-> NullRes],
     fviz |-> [coolantArrows |-> NullArrows, flowColorsApplied |-> FALSE],
     cool |-> [cutawayGroup |-> NullGroup, crossSectionGroup |-> NullGroup,
               channelShaderActive |-> FALSE, clippingPlane |-> FALSE,
               clippedMaterials |-> <<>>, clipOn |-> {},
               channelMaterial |-> NullRes, coolantTexture |-> NullRes,
               savedOuterMaterial |-> NullRes, hasCoolantData |-> FALSE,
               localClippingEnabled |-> FALSE],
     flame |-> [particleSystem |-> FALSE, visible |-> FALSE, lifetimes |-> <<>>, pool |-> 0],
     iflow |-> [particleSystem |-> FALSE, particleMaterial |-> FALSE, textures |-> FALSE,
                visible |-> FALSE, lifetimes |-> <<>>, pool |-> 0, maxVelocity |-> 1],
     gpu |-> [live |-> {}, disposed |-> {}, unowned |-> 0],
     hist |-> [calls |-> <<>>, threw |-> FALSE, overflowed |-> {},
               doubleDisposed |-> {}, lost |-> {}, replaced |-> "none",
               heatOnto |-> NullRes, phase |-> 0],
     lathe |-> [profile |-> <<>>, segments |-> 0, done |-> FALSE, geo |-> NoGeometry],
     calc |-> NoCall,
     ws |-> NewWSClient,
     deb |-> debounce(1)]

Load(r) ==
    /\ app = r.app /\ ui = r.ui /\ mesh = r.mesh /\ scene = r.scene
    /\ heat = r.heat /\ stress = r.stress /\ fviz = r.fviz /\ cool = r.cool
    /\ flame = r.flame /\ iflow = r.iflow /\ gpu = r.gpu /\ hist = r.hist
    /\ lathe = r.lathe /\ calc = r.calc /\ ws = r.ws /\ deb = r.deb

Init == Load(InitState)

----------------------------------------------------------------------------
(* Actions: one per handler *)

OnMeshUpdate(data) ==
    /\ mesh.builds < MaxBuilds
    /\ \E plumeRandoms \in Draws(flame.pool), flowRandoms \in FlowDraws(iflow.pool) :
          Store(Return(onMeshUpdate(Begin(S), data, plumeRandoms, flowRandoms)))

OnSimTick(data) ==
    /\ Store(Return(onSimTick(Begin(S), data)))

VizButtonClick(mode) ==
    /\ Store(Return(vizButtonClick(Begin(S), mode)))

SectionSliderInput ==
    /\ Store(Return(sectionSliderInput(Begin(S))))

Animate ==
    \E jitter \in Jitters(flame.pool), rebirth \in Draws(flame.pool) :
        Store(Return(animate(Begin(S), jitter, rebirth)))

\* the start button is disabled while the simulation runs, the stop button
\* while it does not
StartSimulation ==
    /\ ~app.simRunning
    /\ Store(Return(startSimulation(Begin(S))))

StopSimulation ==
    /\ app.simRunning
    /\ Store(Return(stopSimulation(Begin(S))))

CoolingCheckboxChange ==
    /\ Store(Return(coolingCheckboxChange(Begin(S))))

Next ==
    \/ \E data \in MeshPayloads : OnMeshUpdate(data)
    \/ OnSimTick(FullTick)
    \/ \E mode \in VizModes : VizButtonClick(mode)
    \/ SectionSliderInput
    \/ Animate
    \/ StartSimulation
    \/ StopSimulation
    \/ CoolingCheckboxChange

Spec == Init /\ [][Next]_vars

----------------------------------------------------------------------------
(* A fixed mesh: one mesh_update, then any mode selections and data ticks   *)

FirstMeshUpdate(data) ==
    /\ mesh.currentGroup = NoObj
    /\ OnMeshUpdate(data)

NextFixed ==
    \/ \E data \in MeshPayloads : FirstMeshUpdate(data)
    \/ \E data \in TickPayloads : OnSimTick(data)
    \/ \E mode \in VizModes : VizButtonClick(mode)
    \/ SectionSliderInput
    \/ Animate
    \/ StartSimulation
    \/ StopSimulation
    \/ CoolingCheckboxChange

SpecFixed == Init /\ [][NextFixed]_vars

----------------------------------------------------------------------------
(* The exhaust plume: the lifetimes of PoolSize particles are followed      *)

InitPlume == Load([InitState EXCEPT !.flame.pool = PoolSize])

NextPlume ==
    \/ FirstMeshUpdate([null |-> FALSE, n |-> MaxStations, orifices |-> 1])
    \/ Animate
    \/ StartSimulation
    \/ StopSimulation

SpecPlume == InitPlume /\ [][NextPlume]_vars

\* mesh_update messages in any number and order, between mode-button clicks
\* and starts and stops of the simulation
NextRebuild ==
    \/ \E data \in MeshPayloads : OnMeshUpdate(data)
    \/ \E mode \in VizModes : VizButtonClick(mode)
    \/ StartSimulation
    \/ StopSimulation

SpecRebuild == InitPlume /\ [][NextRebuild]_vars

----------------------------------------------------------------------------
(* The internal flow: the lifetimes of its particles are followed through   *)
(* MaxFrames frames and data ticks                                          *)

InitFlow == Load([InitState EXCEPT !.iflow.pool = PoolSize + 1])

\* how far the first particle has come since it was drawn
FlowClock ==
    IF iflow.lifetimes = <<>> THEN 0
    ELSE LET from(d) == (iflow.lifetimes[1] + FlowScale - d) % FlowScale
         IN  Min(from(0), Min(from(FlowScale \div 2), from(FlowScale - 1)))

FlowFrame ==
    /\ FlowClock < MaxFrames * FlowDt
    /\ Animate

FlowTick(data) ==
    /\ FlowClock < MaxFrames * FlowDt
    /\ OnSimTick(data)

NextFlow ==
    \/ \E data \in MeshPayloads : FirstMeshUpdate(data)
    \/ \E data \in TickPayloads : FlowTick(data)
    \/ \E mode \in {"normal", "flow"} : VizButtonClick(mode)
    \/ FlowFrame
    \/ StartSimulation
    \/ StopSimulation

SpecFlow == InitFlow /\ [][NextFlow]_vars

----------------------------------------------------------------------------
(* The revolved-surface builder on its own: any profile of up to            *)
(* MaxStations stations, 3 to MaxSegments segments                          *)

Profiles ==
    UNION {[1..n -> {<<x, r>> : x \in {0, 1}, r \in {1, 2}}] : n \in 0..MaxStations}

InitLathe ==
    \E profile2d \in Profiles, segments \in 3..MaxSegments :
        Load([InitState EXCEPT !.lathe = [profile |-> profile2d, segments |-> segments,
                                          done |-> FALSE, geo |-> NoGeometry]])

LatheCall ==
    /\ ~lathe.done
    /\ lathe' = [lathe EXCEPT !.done = TRUE,
                              !.geo = createLatheGeometry(lathe.profile, lathe.segments)]
    /\ UNCHANGED <<app, ui, mesh, scene, heat, stress, fviz, cool, flame, iflow, gpu, hist, calc,
                   ws, deb>>

NextLathe == LatheCall

SpecLathe == InitLathe /\ [][NextLathe]_vars

----------------------------------------------------------------------------
(* utils and color_scales.  A real number is kept in units of               *)
(* 1 / ColorScale, rounded down; a JavaScript number that may be NaN is a   *)
(* record [nan, v].                                                         *)

Num(v) == [nan |-> FALSE, v |-> v]
NaN == [nan |-> TRUE, v |-> 0]
Infinity == ColorScale * ColorScale * ColorScale

\* the decimal literal n / d
Dec(n, d) == (n * ColorScale) \div d

\* a / b for numbers a, b >= 0 or a < 0: 0 / 0 is NaN, x / 0 is +-Infinity
Divide(a, b) ==
    IF b = 0
    THEN (IF a = 0 THEN NaN ELSE IF a > 0 THEN Num(Infinity) ELSE Num(-Infinity))
    ELSE Num((a * ColorScale) \div b)

\* a comparison with NaN is false
Lt(t, x) == ~t.nan /\ t.v < x

\* Math.max(lo, Math.min(hi, v)): NaN stays NaN
clamp(t, lo, hi) == IF t.nan THEN NaN ELSE Num(Max(lo, Min(hi, t.v)))

lerp(a, b, t) == IF t.nan THEN NaN ELSE Num(a + ((b - a) * t.v) \div ColorScale)

\* v is a number in [0, 1] or NaN
mapRange(v, inLo, inHi, outLo, outHi) ==
    LET t == IF v.nan THEN NaN ELSE Divide(v.v - inLo, inHi - inLo)
    IN  lerp(outLo, outHi, clamp(t, 0, ColorScale))

\* x - y and x * k and x / (n / d) on a number that may be NaN
Minus(x, t) == IF t.nan THEN NaN ELSE Num(x - t.v)
Shift(t, x) == IF t.nan THEN NaN ELSE Num(t.v - x)
Over(t, n, d) == IF t.nan THEN NaN ELSE Num((t.v * d) \div n)

thermalColor(value, min, max) ==
    LET t == clamp(Divide(value - min, max - min), 0, ColorScale)
        one == Num(ColorScale)
        zero == Num(0)
    IN  IF Lt(t, Dec(25, 100)) THEN <<zero, Over(t, 25, 100), one>>
        ELSE IF Lt(t, Dec(5, 10))
             THEN <<zero, one, Minus(ColorScale, Over(Shift(t, Dec(25, 100)), 25, 100))>>
        ELSE IF Lt(t, Dec(75, 100))
             THEN <<Over(Shift(t, Dec(5, 10)), 25, 100), one, zero>>
        ELSE <<one, Minus(ColorScale, Over(Shift(t, Dec(75, 100)), 25, 100)), zero>>

\* value and sigmaYield in MPa, sigmaYield > 0
stressColor(value, sigmaYield) ==
    LET t == clamp(Divide(value, sigmaYield), 0, Dec(15, 10))
        s1 == Over(Shift(t, Dec(5, 10)), 3, 10)
        s2 == Over(Shift(t, Dec(8, 10)), 2, 10)
    IN  IF Lt(t, Dec(5, 10)) THEN <<Num(0), Num(Dec(8, 10)), Num(Dec(2, 10))>>
        ELSE IF Lt(t, Dec(8, 10))
             THEN <<s1, Num(Dec(8, 10)),
                    Num((Dec(2, 10) * (ColorScale - s1.v)) \div ColorScale)>>
        ELSE IF Lt(t, ColorScale)
             THEN <<Num(ColorScale),
                    Num((Dec(8, 10) * (ColorScale - s2.v)) \div ColorScale), Num(0)>>
        ELSE <<Num(ColorScale), Num(0), Num(0)>>

\* flow_viz machColor; M in units of 1 / ColorScale

machColor(M) ==
    LET lo == clamp(Num(M), 0, ColorScale)
        hi == clamp(Divide(M - ColorScale, 3 * ColorScale), 0, ColorScale)
    IN  IF M <= ColorScale
        THEN <<mapRange(lo, 0, ColorScale, Dec(2, 10), ColorScale),
               mapRange(lo, 0, ColorScale, Dec(4, 10), ColorScale),
               mapRange(lo, 0, ColorScale, ColorScale, ColorScale)>>
        ELSE <<Num(ColorScale),
               mapRange(hi, 0, ColorScale, ColorScale, Dec(2, 10)),
               mapRange(hi, 0, ColorScale, ColorScale, Dec(1, 10))>>

\* cooling_viz coolantColor; temperatures in K
coolantColor(temp, tMin, tMax) ==
    LET t == clamp(Divide(temp - tMin, Max(tMax - tMin, 1)), 0, ColorScale)
        s1 == Over(t, 33, 100)
        s2 == Over(Shift(t, Dec(33, 100)), 33, 100)
        s3 == Over(Shift(t, Dec(66, 100)), 34, 100)
    IN  IF Lt(t, Dec(33, 100))
        THEN <<Num(0), mapRange(s1, 0, ColorScale, Dec(3, 10), Dec(9, 10)), Num(ColorScale)>>
        ELSE IF Lt(t, Dec(66, 100))
             THEN <<s2, Num(Dec(9, 10)), Minus(ColorScale, s2)>>
        ELSE <<Num(ColorScale), mapRange(s3, 0, ColorScale, Dec(9, 10), Dec(15, 100)),
               Num(0)>>

----------------------------------------------------------------------------
(* The colour ramps over a station array: the colours applyHeatMap and      *)
(* applyStripTempColors give the stations, and the red channel of the       *)
(* coolant temperature texture                                              *)

SeqMin(q) == CHOOSE m \in Range(q) : \A k \in 1..Len(q) : q[k] >= m

\* applyHeatMap: tMin, tMax and thermalColor(temp, tMin, tMax) per station
HeatStationColors(stationTemps) ==
    LET tMin == SeqMin(stationTemps)
        tMax == SeqMax(stationTemps)
    IN  [i \in 1..Len(stationTemps) |-> thermalColor(stationTemps[i], tMin, tMax)]

\* applyStripTempColors: the vertices of the strip lie at the stations, so
\* the nearest station of a vertex is its own
StripStationColors(temps) ==
    LET tMin == SeqMin(temps)
        tMax == SeqMax(temps)
    IN  [i \in 1..Len(temps) |-> coolantColor(temps[i], tMin, tMax)]

\* createCoolantTempTexture: data[i * 4] for i < TEX_WIDTH.  The sample
\* position sf = i / (TEX_WIDTH - 1) * (temps.length - 1) is kept as the
\* numerator over TEX_WIDTH - 1; Math.round rounds halves up.
TextureByte(temps, i) ==
    LET w == TexWidth - 1
        tMin == SeqMin(temps)
        range == Max(SeqMax(temps) - tMin, 1)
        sf == i * (Len(temps) - 1)
        s0 == sf \div w
        s1 == Min(s0 + 1, Len(temps) - 1)
        alpha == sf % w
        temp == temps[s0 + 1] * (w - alpha) + temps[s1 + 1] * alpha
        norm == Max(0, Min(255 * w * range, 255 * (temp - tMin * w)))
    IN  (2 * norm + w * range) \div (2 * w * range)

createCoolantTempTexture(temps) ==
    IF Len(temps) > 0
    THEN [k \in 1..TexWidth |-> TextureByte(temps, k - 1)]
    ELSE [k \in 1..TexWidth |-> 128]

\* the range the ramp divides by
RampRange(fn, temps) ==
    IF fn = "thermalColor" THEN SeqMax(temps) - SeqMin(temps)
    ELSE Max(SeqMax(temps) - SeqMin(temps), 1)

Temperatures == {300, 450, 600}

StationArrays == UNION {[1..n -> Temperatures] : n \in 1..MaxStations}

InitRamp ==
    \E fn \in {"thermalColor", "coolantColor", "coolantTexture"}, temps \in StationArrays :
        Load([InitState EXCEPT !.calc = [fn |-> fn, arg |-> temps, done |-> FALSE,
                                         out |-> <<>>]])

Returns(fn, out) ==
    /\ calc.fn = fn
    /\ ~calc.done
    /\ calc' = [calc EXCEPT !.done = TRUE, !.out = out]
    /\ UNCHANGED <<app, ui, mesh, scene, heat, stress, fviz, cool, flame, iflow, gpu,
                   hist, lathe, ws, deb>>

ThermalRamp ==
    /\ Returns("thermalColor", HeatStationColors(calc.arg))

CoolantRamp ==
    /\ Returns("coolantColor", StripStationColors(calc.arg))

FillCoolantTexture ==
    /\ Returns("coolantTexture", createCoolantTempTexture(calc.arg))

NextRamp == ThermalRamp \/ CoolantRamp \/ FillCoolantTexture

SpecRamp == InitRamp /\ [][NextRamp]_vars

----------------------------------------------------------------------------
(* Per-vertex colours: the loops of applyHeatMap, applyStressOverlay and    *)
(* applyFlowVisualization over stations i and circumferential steps j.      *)
(* A colour array is a sequence of colours, vertex idx at place idx + 1.    *)

Black == <<Num(0), Num(0), Num(0)>>      \* a new Float32Array is all zero

StationVertex_noSeam(i, j, nCirc) == i * nCirc + j

\* const idx = i * (nCirc + 1) + j
StationVertex(i, j, nCirc) == i * (nCirc + 1) + j

\* for i < nStations, for j <= nCirc: colors[idx] = stationColors[i].
\* A later write replaces an earlier one; a write past the end of the typed
\* array is dropped.
BroadcastColors(stationColors, nStations, nCirc, vertexCount) ==
    [v \in 1..vertexCount |->
        LET writers == {i \in 0..(nStations - 1) :
                           \E j \in 0..nCirc : StationVertex(i, j, nCirc) = v - 1}
        IN  IF writers = {} THEN Black
            ELSE stationColors[1 + CHOOSE i \in writers : \A k \in writers : k <= i]]

\* geo.attributes.position.count of a wall of n stations
WallVertexCount(n, nCirc) == Len(createLatheGeometry(Profile(n), nCirc).positions)

\* stationTemps[i] !== undefined ? stationTemps[i] : tMin
HeatVertexColors(stationTemps, nStations, nCirc) ==
    LET tMin == SeqMin(stationTemps)
        tMax == SeqMax(stationTemps)
        colors == [i \in 1..nStations |->
                      thermalColor(IF i <= Len(stationTemps) THEN stationTemps[i] ELSE tMin,
                                   tMin, tMax)]
    IN  BroadcastColors(colors, nStations, nCirc, WallVertexCount(nStations, nCirc))

\* stationStress[i] !== undefined ? stationStress[i] : 0
StressVertexColors(stationStress, yieldStrength, nStations, nCirc) ==
    LET colors == [i \in 1..nStations |->
                      stressColor(IF i <= Len(stationStress) THEN stationStress[i] ELSE 0,
                                  yieldStrength)]
    IN  BroadcastColors(colors, nStations, nCirc, WallVertexCount(nStations, nCirc))

\* i < machArray.length ? machArray[i] : 1.0; vertexCount = nStations * (nCirc + 1)
FlowVertexColors(machArray, nStations, nCirc) ==
    LET colors == [i \in 1..nStations |->
                      machColor(IF i <= Len(machArray) THEN machArray[i] ELSE ColorScale)]
    IN  BroadcastColors(colors, nStations, nCirc, nStations * (nCirc + 1))

\* The converging-diverging profile of ScenarioStations stations with its
\* narrowest station at k: radius 0.04 -> 0.01 -> 0.03 (in micrometres),
\* and a Mach array rising 0.3 -> 1.0 at station k -> 3.0
ScenarioRadius(k) ==
    [i \in 1..ScenarioStations |->
        IF i - 1 <= k THEN 40000 - (30000 * (i - 1)) \div k
        ELSE 10000 + (20000 * (i - 1 - k)) \div (ScenarioStations - 1 - k)]

ScenarioMach(k) ==
    [i \in 1..ScenarioStations |->
        IF i - 1 <= k THEN Dec(3, 10) + ((ColorScale - Dec(3, 10)) * (i - 1)) \div k
        ELSE ColorScale + (2 * ColorScale * (i - 1 - k)) \div (ScenarioStations - 1 - k)]

\* the station of least radius
Throat(radius) == CHOOSE i \in 0..(Len(radius) - 1) : radius[i + 1] = SeqMin(radius)

StationValues(fn) ==
    IF fn = "applyHeatMap" THEN Temperatures
    ELSE IF fn = "applyStressOverlay" THEN {50, 130, 250}
    ELSE {Dec(3, 10), ColorScale, 3 * ColorScale}

\* yieldMPa = currentMaterial?.yield_strength_MPa || 200
DefaultYield == 200

ColourCalls ==
    {[fn |-> fn, done |-> FALSE, out |-> <<>>,
      arg |-> [values |-> values, nStations |-> Len(values), nCirc |-> nCirc, throat |-> 0]] :
        fn \in {"applyHeatMap"}, nCirc \in 3..MaxSegments,
        values \in UNION {[1..n -> StationValues("applyHeatMap")] : n \in 2..MaxStations}}
    \cup
    {[fn |-> fn, done |-> FALSE, out |-> <<>>,
      arg |-> [values |-> values, nStations |-> Len(values), nCirc |-> nCirc, throat |-> 0]] :
        fn \in {"applyStressOverlay"}, nCirc \in 3..MaxSegments,
        values \in UNION {[1..n -> StationValues("applyStressOverlay")] : n \in 2..MaxStations}}
    \cup
    {[fn |-> fn, done |-> FALSE, out |-> <<>>,
      arg |-> [values |-> values, nStations |-> Len(values), nCirc |-> nCirc, throat |-> 0]] :
        fn \in {"applyFlowVisualization"}, nCirc \in 3..MaxSegments,
        values \in UNION {[1..n -> StationValues("applyFlowVisualization")] :
                             n \in 2..MaxStations}}
    \cup
    {[fn |-> "applyFlowVisualization", done |-> FALSE, out |-> <<>>,
      arg |-> [values |-> ScenarioMach(k), nStations |-> ScenarioStations,
               nCirc |-> CircumSegments, throat |-> Throat(ScenarioRadius(k))]] :
        k \in {ScenarioStations \div 3, ScenarioStations \div 2}}

InitColours == \E call \in ColourCalls : Load([InitState EXCEPT !.calc = call])

HeatColours ==
    /\ Returns("applyHeatMap",
               HeatVertexColors(calc.arg.values, calc.arg.nStations, calc.arg.nCirc))

StressColours ==
    /\ Returns("applyStressOverlay",
               StressVertexColors(calc.arg.values, DefaultYield, calc.arg.nStations,
                                  calc.arg.nCirc))

FlowColours ==
    /\ Returns("applyFlowVisualization",
               FlowVertexColors(calc.arg.values, calc.arg.nStations, calc.arg.nCirc))

NextColours == HeatColours \/ StressColours \/ FlowColours

SpecColours == InitColours /\ [][NextColours]_vars

----------------------------------------------------------------------------
(* The channel arcs of buildCrossSectionRing.  Lengths are in micrometres;  *)
(* an angle is a fraction [num, den] of radians.                              *)

\* x || d
OrDefault(x, d) == IF x = 0 THEN d ELSE x

\* the channel arcs of the ring: nCh arcs of chAngle = chW / rMean each,
\* arc ch centred at 2 * pi * ch / nCh; ribAngle = ribW / rMean
ChannelArcs(cooling, rInner, rOuter) ==
    LET nCh == OrDefault(cooling.n_channels, 60)
        chH == OrDefault(cooling.channel_height, 3000)
        chW == OrDefault(cooling.channel_width, 2000)
        ribW == OrDefault(cooling.rib_width, 1000)
        close == 500
        rChOuter == rOuter - close
        rChInner == Max(rChOuter - chH, rInner + 300)
    IN  [nCh |-> nCh,
         chAngle |-> [num |-> 2 * chW, den |-> rChInner + rChOuter],
         ribAngle |-> [num |-> 2 * ribW, den |-> rChInner + rChOuter]]

\* cooling configurations within the ranges of the cooling panel, and 0
\* for a width left out
CoolingConfigs ==
    [n_channels : {10, 60, 200}, channel_width : {0, 500, 2000, 6000},
     channel_height : {500, 3000, 8000}, rib_width : {500, 1000, 4000}]

\* inner radius and wall thickness of a station
StationRadii == {10000, 25000, 75000} \X {1000, 3000, 15000}

InitRing ==
    \E cooling \in CoolingConfigs, r \in StationRadii :
        Load([InitState EXCEPT !.calc =
            [NoCall EXCEPT !.fn = "buildCrossSectionRing",
                           !.arg = [cooling |-> cooling, rInner |-> r[1],
                                    rOuter |-> r[1] + r[2]]]])

RingArcs ==
    /\ Returns("buildCrossSectionRing",
               ChannelArcs(calc.arg.cooling, calc.arg.rInner, calc.arg.rOuter))

NextRing == RingArcs

SpecRing == InitRing /\ [][NextRing]_vars

----------------------------------------------------------------------------
(* Derived plume parameters.  Pressures are in pascal; Mach numbers and     *)
(* pressure ratios are in hundredths; angles, logarithms and the widening   *)
(* factor are in units of 1 / AngleScale.                                    *)

AngleScale == 10000

\* Math.asin(1.0 / M) for the Mach numbers 1.01, 2 and 3 (M in hundredths)
asin_reciprocal(M) ==
    IF M = 101 THEN 14300 ELSE IF M = 200 THEN 5236 ELSE 3398

\* the number of times den doubles before num < 2 * den
RECURSIVE Halvings(_, _)
Halvings(num, den) == IF num >= 2 * den THEN 1 + Halvings(num, 2 * den) ELSE 0

RECURSIVE TwoTo(_)
TwoTo(k) == IF k = 0 THEN 1 ELSE 2 * TwoTo(k - 1)

\* Math.log(num / den) for num >= den: with x = num / (den * 2^k) in [1, 2)
\* and y = (x - 1) / (x + 1), ln = k * ln 2 + 2 * (y + y^3/3 + y^5/5 + y^7/7)
log(num, den) ==
    LET k == Halvings(num, den)
        d == den * TwoTo(k)
        y == ((num - d) * AngleScale) \div (num + d)
        y2 == (y * y) \div AngleScale
        y3 == (y * y2) \div AngleScale
        y5 == (y3 * y2) \div AngleScale
        y7 == (y5 * y2) \div AngleScale
    IN  k * 6931 + 2 * (y + y3 \div 3 + y5 \div 5 + y7 \div 7)

\* the overexpanded branch with the floor applied as a ceiling
HalfAngleFactor_ceiling(ratio) ==
    IF ratio > 100
    THEN Min(AngleScale + (4 * log(ratio, 100)) \div 10, (25 * AngleScale) \div 10)
    ELSE Min((5 * ratio * (AngleScale \div 100)) \div 10, (15 * AngleScale) \div 100)

\* what _plumeHalfAngle is multiplied by
HalfAngleFactor(ratio) ==
    IF ratio > 100
    THEN Min(AngleScale + (4 * log(ratio, 100)) \div 10, (25 * AngleScale) \div 10)
    ELSE Max((5 * ratio * (AngleScale \div 100)) \div 10, (15 * AngleScale) \div 100)

\* _pressureRatio = Pe / Math.max(Pa, 1.0), in hundredths
PressureRatio(Pe, Pa) == (Pe * 100) \div Max(Pa, 1)

\* _plumeHalfAngle after _recomputeDerived
recomputeDerived(physics) ==
    LET M == Max(physics.exit_mach, 101)
        ratio == PressureRatio(physics.exit_pressure_Pa, physics.ambient_pressure_Pa)
    IN  (asin_reciprocal(M) * HalfAngleFactor(ratio)) \div AngleScale

ExitMachs == {50, 200, 300}
ExitPressures ==
    {10000, 20000, 30000, 50000, 80000, 100000, 120000, 200000, 500000,
     2000000, 4000000, 4500000, 6000000, 10000000}
AmbientPressures == {100000, 50000}

ExhaustPhysics ==
    [exit_mach : ExitMachs, exit_pressure_Pa : ExitPressures,
     ambient_pressure_Pa : AmbientPressures]

InitPlumeAngle ==
    \E physics \in ExhaustPhysics :
        Load([InitState EXCEPT !.calc =
            [NoCall EXCEPT !.fn = "recomputeDerived", !.arg = physics]])

RecomputeDerived ==
    /\ Returns("recomputeDerived", recomputeDerived(calc.arg))

NextPlumeAngle == RecomputeDerived

SpecPlumeAngle == InitPlumeAngle /\ [][NextPlumeAngle]_vars

----------------------------------------------------------------------------
(* The injector face.  Lengths are in units of 10 micrometres; cosines and  *)
(* sines are in units of 1 / AngleScale; an angle is a fraction p / q of a  *)
(* full turn.                                                                *)

Ceil(a, b) == (a + b - 1) \div b

\* Math.cos(x) for x in [0, pi / 2], x in units of 1 / AngleScale
CosQ(x) ==
    LET x2 == (x * x) \div AngleScale
        t1 == x2 \div 2
        t2 == (t1 * x2) \div (12 * AngleScale)
        t3 == (t2 * x2) \div (30 * AngleScale)
        t4 == (t3 * x2) \div (56 * AngleScale)
        t5 == (t4 * x2) \div (90 * AngleScale)
    IN  AngleScale - t1 + t2 - t3 + t4 - t5

\* Math.cos(2 * pi * p / q)
cos(p, q) ==
    LET pp == p % q
        h == IF 2 * pp > q THEN q - pp ELSE pp
    IN  IF 4 * h > q THEN 0 - CosQ((62832 * (q - 2 * h)) \div (2 * q))
        ELSE CosQ((62832 * h) \div q)

\* Math.sin(2 * pi * p / q) = cos(2 * pi * (p / q - 1 / 4))
sin(p, q) == cos(4 * p + 3 * q, 4 * q)

\* createInjectorFaceGeometry: the centre and segments + 1 rim vertices,
\* one triangle per segment
createInjectorFaceGeometry(rInner, segments) ==
    [vertices |-> 1 + (segments + 1), triangles |-> segments, skipped |-> 0, markers |-> 0]

\* the cells of the polar grid whose centre is inside an orifice
SkippedCells(faceRadius, orifices, nRadial, nAngular) ==
    LET cosT == [j \in 0..(nAngular - 1) |-> cos(2 * j + 1, 2 * nAngular)]
        sinT == [j \in 0..(nAngular - 1) |-> sin(2 * j + 1, 2 * nAngular)]
        rMid == [i \in 0..(nRadial - 1) |-> ((2 * i + 1) * faceRadius) \div (2 * nRadial)]
        inside(i, j, o) ==
            LET dy == (rMid[i] * cosT[j]) \div AngleScale - o.y
                dz == (rMid[i] * sinT[j]) \div AngleScale - o.z
            IN  dy * dy + dz * dz < o.radius * o.radius
    IN  {c \in (0..(nRadial - 1)) \X (0..(nAngular - 1)) :
            \E k \in 1..Len(orifices) : inside(c[1], c[2], orifices[k])}

\* faceGeo and the markers of createInjectorFaceWithOrifices: a polar grid of
\* (nRadial + 1) * (nAngular + 1) vertices, one triangle for a kept cell of the innermost ring and two for
\* any other kept cell, and one marker mesh for each orifice
faceGeo(faceRadius, orifices, segments) ==
    LET cellTarget == Min(faceRadius, SeqMin([k \in 1..Len(orifices) |-> orifices[k].radius]))
        nRadial == Min(120, Max(40, Ceil(faceRadius, cellTarget)))
        nAngular == Min(512, Max(segments, Ceil(710 * faceRadius, 113 * cellTarget)))
        skipped == SkippedCells(faceRadius, orifices, nRadial, nAngular)
        fan == Cardinality({c \in skipped : c[1] = 0})
    IN  [vertices |-> (nRadial + 1) * (nAngular + 1),
         triangles |-> (nAngular - fan)
                          + 2 * (nAngular * (nRadial - 1) - (Cardinality(skipped) - fan)),
         skipped |-> Cardinality(skipped),
         markers |-> Len(orifices),
         nRadial |-> nRadial, nAngular |-> nAngular]

\* the injector face of buildEngineMesh
InjectorFace(faceRadius, orifices, segments) ==
    IF Len(orifices) > 0
    THEN faceGeo(faceRadius, orifices, segments)
    ELSE createInjectorFaceGeometry(faceRadius, segments)

Orifice(y, z, radius) == [y |-> y, z |-> z, radius |-> radius]

\* orifice lists for a face of radius R: none, inside the face, across its
\* rim, entirely outside it, and small holes on a large face
OrificeLists(R) ==
    {<<>>,
     <<Orifice(R \div 2, 0, 20)>>,
     <<Orifice(0, R \div 2, 100), Orifice(R \div 4, 0, 25)>>,
     <<Orifice(0, 0, 100)>>,
     <<Orifice(R \div 2, 0, 100), Orifice(0 - R \div 2, 0, 150)>>,
     <<Orifice(R, 0, 200)>>,
     <<Orifice(R + 200, 0, 100)>>,
     <<Orifice(R + 100, 0, 100)>>,
     <<Orifice(0, R + 500, 100), Orifice(0 - (R + 300), 0, 150)>>,
     <<Orifice(0, 0 - 3 * R, R)>>,
     <<Orifice(0, R \div 4, 100), Orifice(R + 200, R, 100)>>}

FaceRadii == {1500, 2000, 3000}

InitInjector ==
    \E R \in FaceRadii, segments \in {8, CircumSegments} :
        \E orifices \in OrificeLists(R) :
            Load([InitState EXCEPT !.calc =
                [NoCall EXCEPT !.fn = "injectorFace",
                               !.arg = [faceRadius |-> R, orifices |-> orifices,
                                        segments |-> segments]]])

BuildInjectorFace ==
    /\ Returns("injectorFace",
               InjectorFace(calc.arg.faceRadius, calc.arg.orifices, calc.arg.segments))

NextInjector == BuildInjectorFace

SpecInjector == InitInjector /\ [][NextInjector]_vars

----------------------------------------------------------------------------
(* ws_client: WSClient.  `w` is the client together with what the browser   *)
(* holds for it: the sockets it created, by their readyState, every one     *)
(* with the four handlers of _doConnect attached, and the number of pending *)
(* setTimeout callbacks.  w.ws is this.ws, the number of a socket or 0.     *)

\* setTimeout(..., this.reconnectDelay); the timeout is never cleared
scheduleReconnect(w) == [w EXCEPT !.timers = @ + 1]

\* new WebSocket(url) throws for a url the constructor does not accept
doConnect(w) ==
    IF ~w.urlAccepted THEN scheduleReconnect(w)
    ELSE [w EXCEPT !.sockets = Append(@, "connecting"), !.ws = Len(w.sockets) + 1]

connect(w) == doConnect([w EXCEPT !.shouldReconnect = TRUE])

\* WebSocket.close(): nothing for a socket that is closing or closed
close(w, k) ==
    IF w.sockets[k] \in {"connecting", "open"}
    THEN [w EXCEPT !.sockets[k] = "closing"]
    ELSE w

disconnect(w) ==
    LET w1 == [w EXCEPT !.shouldReconnect = FALSE]
    IN  IF w1.ws # 0 THEN close(w1, w1.ws) ELSE w1

onopen(w) == [w EXCEPT !.reconnectDelay = 1000]

onclose(w) == IF w.shouldReconnect THEN scheduleReconnect(w) ELSE w

\* this.ws.close(): the socket the client holds now, not the one in error
onerror(w) == close(w, w.ws)

\* the reconnect callback without the test of _shouldReconnect
reconnectTimer_unconditional(w) ==
    [doConnect(w) EXCEPT !.reconnectDelay = Min(@ * 2, w.maxReconnectDelay)]

\* the reconnect callback doubling without the cap
reconnectTimer_uncapped(w) ==
    IF w.shouldReconnect
    THEN [doConnect(w) EXCEPT !.reconnectDelay = @ * 2]
    ELSE w

\* the callback of _scheduleReconnect
reconnectTimer(w) ==
    IF w.shouldReconnect
    THEN [doConnect(w) EXCEPT !.reconnectDelay = Min(@ * 2, w.maxReconnectDelay)]
    ELSE w

\* the callbacks of handlers[type] that run for one message: the loop ends
\* at the first callback that throws, the exception is caught outside it
RECURSIVE Dispatched(_, _)
Dispatched(callbacks, throwing) ==
    IF callbacks = <<>> THEN <<>>
    ELSE IF Head(callbacks) \in throwing THEN <<Head(callbacks)>>
    ELSE <<Head(callbacks)>> \o Dispatched(Tail(callbacks), throwing)

\* msg.parsed: JSON.parse(event.data) returned
onmessage(w, msg) ==
    [w EXCEPT !.msg = msg,
              !.delivered = IF msg.parsed THEN Dispatched(w.handlers[msg.type], msg.throwing)
                            ELSE <<>>]

on(w, type, callback) == [w EXCEPT !.handlers[type] = Append(@, callback)]

off(w, type, callback) ==
    [w EXCEPT !.handlers[type] = SelectSeq(@, LAMBDA cb : cb # callback)]

Did(w, op) == [w EXCEPT !.op = op]

Callbacks == {"onMeshUpdate", "onSimTick"}

Messages ==
    [type : MessageTypes, parsed : BOOLEAN, throwing : SUBSET Callbacks]

WsConnect ==
    /\ Len(ws.sockets) < MaxSockets
    /\ ws.timers < MaxSockets
    /\ Store([S EXCEPT !.ws = Did(connect(@), "connect")])

WsDisconnect ==
    /\ Store([S EXCEPT !.ws = Did(disconnect(@), "disconnect")])

\* the connection of socket k is established
SocketOpen(k) ==
    /\ ws.sockets[k] = "connecting"
    /\ Store([S EXCEPT !.ws = Did(onopen([@ EXCEPT !.sockets[k] = "open"]), "open")])

\* socket k is closed: by the server, or at the end of a closing handshake
SocketClose(k) ==
    /\ ws.sockets[k] # "closed"
    /\ Store([S EXCEPT !.ws = Did(onclose([@ EXCEPT !.sockets[k] = "closed"]), "close")])

\* the connection of socket k fails: the browser closes it and fires error
\* and close in one task
SocketError(k) ==
    /\ ws.sockets[k] # "closed"
    /\ Store([S EXCEPT !.ws =
                 Did(onclose(onerror([@ EXCEPT !.sockets[k] = "closed"])), "error")])

SocketMessage(k, msg) ==
    /\ ws.sockets[k] \in {"open", "closing"}
    /\ Store([S EXCEPT !.ws = Did(onmessage(@, msg), "message")])

TimerFires ==
    /\ ws.timers > 0
    /\ Len(ws.sockets) < MaxSockets
    /\ Store([S EXCEPT !.ws = Did(reconnectTimer([@ EXCEPT !.timers = @ - 1]), "timer")])

WsOn(type, callback) ==
    /\ Len(ws.handlers[type]) < MaxHandlers
    /\ Store([S EXCEPT !.ws = Did(on(@, type, callback), "on")])

WsOff(type, callback) ==
    /\ Store([S EXCEPT !.ws = Did(off(@, type, callback), "off")])

\* a client used through connect() and disconnect(), with the socket events
\* and timer expiries of the browser; the url is one the WebSocket
\* constructor accepts, or one it rejects
InitSocket ==
    \E accepted \in BOOLEAN : Load([InitState EXCEPT !.ws.urlAccepted = accepted])

NextSocket ==
    \/ WsConnect
    \/ WsDisconnect
    \/ \E k \in DOMAIN ws.sockets : SocketOpen(k)
    \/ \E k \in DOMAIN ws.sockets : SocketClose(k)
    \/ \E k \in DOMAIN ws.sockets : SocketError(k)
    \/ TimerFires

SpecSocket == InitSocket /\ [][NextSocket]_vars

\* message dispatch: callbacks are registered and removed, and messages
\* arrive on the connected socket
FirstConnect ==
    /\ ws.sockets = <<>>
    /\ WsConnect

NextDispatch ==
    \/ FirstConnect
    \/ \E k \in DOMAIN ws.sockets : SocketOpen(k)
    \/ \E type \in MessageTypes, callback \in Callbacks : WsOn(type, callback)
    \/ \E type \in MessageTypes, callback \in Callbacks : WsOff(type, callback)
    \/ \E k \in DOMAIN ws.sockets, msg \in Messages : SocketMessage(k, msg)

SpecDispatch == Init /\ [][NextDispatch]_vars

----------------------------------------------------------------------------
(* utils: debounce.  `d` is the closure with the timeouts of the browser:   *)
(* a timeout is [id, left, args], left the time until it is due.            *)

\* clearTimeout(id): nothing for an id that is not pending
clearTimeout(d, id) == [d EXCEPT !.timers = {t \in @ : t.id # id}]

\* setTimeout(() => fn.apply(this, args), ms) returns a fresh id
setTimeout(d, args) ==
    LET id == CHOOSE n \in 1..(Cardinality(d.timers) + 1) :
                  /\ \A t \in d.timers : t.id # n
                  /\ \A m \in 1..(n - 1) : \E t \in d.timers : t.id = m
    IN  [d EXCEPT !.timers = @ \cup {[id |-> id, left |-> d.ms, args |-> args]},
                  !.timer = id]

Called_(d, args) ==
    [d EXCEPT !.age = 0, !.last = args, !.fired = 0,
              !.burst = IF d.fired > 0 THEN 1 ELSE Min(@ + 1, 2)]

\* the returned function without clearTimeout(timer)
debounced_keepsTimer(d, args) == Called_(setTimeout(d, args), args)

\* the function debounce returns
debounced(d, args) == Called_(setTimeout(clearTimeout(d, d.timer), args), args)

\* the timeout t expires: fn.apply(this, args)
timeoutCallback(d, t) ==
    [d EXCEPT !.timers = @ \ {t}, !.out = t.args, !.outAge = d.age,
              !.fired = Min(@ + 1, 2)]

\* one unit of time; a timeout may run late, by one unit at most
elapse(d) ==
    [d EXCEPT !.age = Min(@ + 1, d.ms + 1),
              !.timers = {[t EXCEPT !.left = Max(@ - 1, 0)] : t \in @}]

SliderValues == {"10", "20", "30"}

DebouncedCall(args) ==
    /\ Store([S EXCEPT !.deb = [debounced(@, args) EXCEPT !.op = "call"]])

TimeoutExpires(t) ==
    /\ t.left = 0
    /\ Store([S EXCEPT !.deb = [timeoutCallback(@, t) EXCEPT !.op = "timeout"]])

TimePasses ==
    /\ \A t \in deb.timers : deb.age <= deb.ms
    /\ Store([S EXCEPT !.deb = [elapse(@) EXCEPT !.op = "time"]])

\* the sliders debounce by 150 ms, the number inputs by 300 ms
InitDebounce == \E ms \in {1, 2} : Load([InitState EXCEPT !.deb = debounce(ms)])

NextDebounce ==
    \/ \E args \in SliderValues : DebouncedCall(args)
    \/ \E t \in deb.timers : TimeoutExpires(t)
    \/ TimePasses

SpecDebounce == InitDebounce /\ [][NextDebounce]_vars

----------------------------------------------------------------------------
(* Properties *)

Called(name) == name \in Range(hist.calls)

\* the place of the first call of `name` in the last handler, 0 if none
Pos(name) ==
    IF Called(name)
    THEN CHOOSE k \in 1..Len(hist.calls) :
            /\ hist.calls[k] = name
            /\ \A j \in 1..(k - 1) : hist.calls[j] # name
    ELSE 0

Before(first, second) == Called(first) /\ Pos(first) < Pos(second)

Applies == {"applyHeatMap", "applyStressOverlay", "applyFlowVisualization", "showCoolingViz"}

\* applyVisualization went past its early return
Transitioned == Called("applyVisualization") /\ ~app.lastSimData.null

----------------------------------------------------------------------------

HeatPresent == mesh.outerMesh # NoObj /\ mesh.outer.material = HeatMaterial

StressPresent == mesh.outerMesh # NoObj /\ mesh.outer.material = StressMaterial

CoolingPresent ==
    \/ mesh.outerMesh # NoObj /\ mesh.outer.material = ChannelMaterial
    \/ cool.cutawayGroup # NullGroup
    \/ cool.crossSectionGroup # NullGroup
    \/ cool.clippingPlane
    \/ cool.clipOn # {}

FlowPresent ==
    \/ mesh.innerMesh # NoObj /\ (mesh.inner.vertexColors \/ mesh.inner.color)
    \/ fviz.coolantArrows # NullArrows

OverlaysPresent ==
    Cardinality({k \in 1..4 :
        <<HeatPresent, StressPresent, CoolingPresent, FlowPresent>>[k]})

\* C2: on a fixed mesh, after applyVisualization returns at most one
\* overlay's effects are present on the scene; in mode None none is present
\* and the outer wall carries its base material.
C2_AtMostOneOverlay ==
    Called("applyVisualization") =>
        /\ OverlaysPresent <= 1
        /\ app.vizMode = "normal" =>
              /\ OverlaysPresent = 0
              /\ mesh.outerMesh # NoObj => mesh.outer.material = OuterMat(mesh.outerMesh)

\* back in mode None after the heat map, the stress overlay and the channel
\* shader have all been on the wall
C2_Witness ==
    /\ Transitioned
    /\ app.vizMode = "normal"
    /\ heat.heatMaterial # NullRes
    /\ stress.stressMaterial # NullRes
    /\ gpu.unowned > 0
    /\ mesh.outer.material = OuterMat(mesh.outerMesh)

\* C3: the sequence Thermal, Stress, None on a fixed mesh leaves the outer
\* wall with the material it had immediately before Thermal was first applied.
C3_ThermalStressNoneRestores ==
    hist.phase = 3 => mesh.outer.material = hist.heatOnto

\* Thermal, then Stress, then None have been applied, each to a mesh with an
\* outer wall
C3_Witness ==
    /\ hist.phase = 3
    /\ app.vizMode = "normal"
    /\ hist.heatOnto = OuterMat(mesh.outerMesh)
    /\ stress.originalMaterial # NullRes

----------------------------------------------------------------------------

\* C4: the lifetime of every particle of the plume and of the internal flow
\* is >= 0 and strictly below 1 after any number of advancement steps.
C4_LifetimesBelowOne ==
    /\ \A i \in DOMAIN flame.lifetimes :
          flame.lifetimes[i] >= 0 /\ flame.lifetimes[i] < PlumeScale
    /\ \A i \in DOMAIN iflow.lifetimes :
          iflow.lifetimes[i] >= 0 /\ iflow.lifetimes[i] < FlowScale

\* C5 as stated: a plume particle whose lifetime overflows during updateFlame
\* has its lifetime set to 0, and stays in the pool.
C5_RebornAtZero ==
    /\ \A i \in hist.overflowed : flame.lifetimes[i] = 0
    /\ flame.particleSystem => Len(flame.lifetimes) = flame.pool

\* C5: a plume particle whose lifetime overflows during updateFlame is given
\* a fresh Math.random() as its lifetime, a value in [0, 1) that need not be
\* 0; the particle stays in the pool, whose size never changes.
C5_RebornAtRandomLifetime ==
    /\ \A i \in hist.overflowed :
          flame.lifetimes[i] >= 0 /\ flame.lifetimes[i] < PlumeScale
    /\ hist.overflowed \subseteq DOMAIN flame.lifetimes
    /\ flame.particleSystem => Len(flame.lifetimes) = flame.pool

\* a particle overflowed in the last frame and was reborn away from the exit
C5_Witness ==
    /\ hist.overflowed # {}
    /\ \E i \in hist.overflowed : flame.lifetimes[i] > 0

----------------------------------------------------------------------------

EngineGroupsInScene == {obj \in scene : obj[1] = "engineGroup"}

\* C6: after buildEngineMesh the scene holds exactly one engine group, and
\* every geometry and material built for the group it replaced has been
\* disposed, whichever overlay was active at the rebuild.
C6_PreviousGroupDisposed ==
    (Called("buildEngineMesh") /\ ~hist.threw) =>
        /\ EngineGroupsInScene = {EngineGroup(mesh.currentGroup)}
        /\ hist.replaced = "full" =>
              {rid \in gpu.live \cup hist.lost : rid[2] = mesh.currentGroup - 1} = {}

\* C7: no geometry, material or texture has dispose() called on it twice.
C7_NoDoubleDispose == hist.doubleDisposed = {}

RECURSIVE SumWeights(_)
SumWeights(rids) ==
    IF rids = {} THEN 0
    ELSE LET rid == CHOOSE r \in rids : TRUE
         IN  Weight(rid) + SumWeights(rids \ {rid})

\* resources made by overlay code that are created and not disposed
OverlayLive ==
    SumWeights({rid \in gpu.live : rid[1] \in OverlayNames}) + gpu.unowned

\* what one activation of every overlay creates: the heat and stress
\* materials, and either the coolant arrows or the channel shader with its
\* texture, the cutaway with the four materials it is cloned from, and the
\* cross-section
OverlayCapacity ==
    2 + Max(2 * 8,
            2 + 2 * SectionFaceChildren(MaxStations) + 4
              + 2 * buildCrossSectionRing(DefaultChannels, <<>>).children)

\* C8: on a fixed mesh the number of live resources made by overlay code
\* stays within what the overlays can hold at one time, however many mode
\* switches and ticks there are.
C8_OverlayResourcesBounded == OverlayLive <= OverlayCapacity

\* C9: buildEngineMesh with fewer than 2 stations does not throw, and the
\* current group, the wall references and the scene stay consistent.
C9_ShortProfileNoThrow ==
    (Called("buildEngineMesh") /\ app.lastMeshData.n < 2) =>
        /\ ~hist.threw
        /\ EngineGroupsInScene = {EngineGroup(mesh.currentGroup)}
        /\ mesh.outerMesh \in {NoObj, mesh.currentGroup}
        /\ mesh.innerMesh \in {NoObj, mesh.currentGroup}

\* C10: for N >= 2 stations and S >= 3 segments createLatheGeometry emits
\* exactly N * (S + 1) vertices and 2 * (N - 1) * S triangles, and every
\* index is in [0, N * (S + 1)).
C10_LatheCounts ==
    (lathe.done /\ Len(lathe.profile) >= 2 /\ lathe.segments >= 3) =>
        LET N == Len(lathe.profile)
            segs == lathe.segments
        IN  /\ ~lathe.geo.threw
            /\ Len(lathe.geo.positions) = N * (segs + 1)
            /\ Len(lathe.geo.indices) = 3 * (2 * (N - 1) * segs)
            /\ \A k \in DOMAIN lathe.geo.indices :
                  lathe.geo.indices[k] >= 0 /\ lathe.geo.indices[k] < N * (segs + 1)

\* a surface of at least three stations has been built
C10_Witness ==
    /\ lathe.done
    /\ Len(lathe.profile) >= 3
    /\ lathe.segments > 3
    /\ Len(lathe.geo.indices) > 0

----------------------------------------------------------------------------
(* Colour ramps *)

Constant(q) == Len(q) > 0 /\ \A k \in 1..Len(q) : q[k] = q[1]

UnitComponent(c) == ~c.nan /\ c.v >= 0 /\ c.v <= ColorScale

\* C11: for a constant station array every ramp that divides by max - min
\* divides by a positive fallback range, and every colour component it
\* returns is a number in [0, 1] (a texture byte in 0..255).
C11_RampsGuardConstantArray ==
    (calc.done /\ calc.fn \in {"thermalColor", "coolantColor", "coolantTexture"}
               /\ Constant(calc.arg)) =>
        /\ RampRange(calc.fn, calc.arg) > 0
        /\ calc.fn \in {"thermalColor", "coolantColor"} =>
              \A i \in 1..Len(calc.out) : \A c \in 1..3 : UnitComponent(calc.out[i][c])
        /\ calc.fn = "coolantTexture" =>
              \A k \in 1..Len(calc.out) : calc.out[k] \in 0..255

\* the colours of the vertices i * (S + 1) + j, 0 <= j <= S, of station i
StationColours(i) ==
    {calc.out[i * (calc.arg.nCirc + 1) + j + 1] : j \in 0..calc.arg.nCirc}

\* C12: on the 50-station converging-diverging profile with Mach rising
\* 0.3 -> 1.0 (throat) -> 3.0, Flow mode colours station 0 with the subsonic
\* end of the ramp, the throat with the sonic colour and the last station
\* with the supersonic end of the ramp.
C12_FlowScenarioColours ==
    (calc.done /\ calc.fn = "applyFlowVisualization"
               /\ calc.arg.nStations = ScenarioStations) =>
        /\ StationColours(0) = {<<Num(Dec(2, 10)), Num(Dec(4, 10)), Num(ColorScale)>>}
        /\ StationColours(calc.arg.throat)
              = {<<Num(ColorScale), Num(ColorScale), Num(ColorScale)>>}
        /\ StationColours(ScenarioStations - 1)
              = {<<Num(ColorScale), Num(Dec(2, 10)), Num(Dec(1, 10))>>}

\* the ramp colour of the scalar of station i
RampColour(i) ==
    LET x == calc.arg.values[i + 1]
    IN  IF calc.fn = "applyHeatMap"
        THEN thermalColor(x, SeqMin(calc.arg.values), SeqMax(calc.arg.values))
        ELSE IF calc.fn = "applyStressOverlay" THEN stressColor(x, DefaultYield)
        ELSE machColor(x)

\* C20: after the Thermal, Stress or Flow colouring with a station array of
\* N values, all S + 1 vertices of every station i < N carry one colour,
\* the ramp colour of the scalar of station i.
C20_ColourVariesOnlyAxially ==
    (calc.done /\ calc.fn \in {"applyHeatMap", "applyStressOverlay", "applyFlowVisualization"}
               /\ Len(calc.arg.values) = calc.arg.nStations) =>
        /\ Len(calc.out) = calc.arg.nStations * (calc.arg.nCirc + 1)
        /\ \A i \in 0..(calc.arg.nStations - 1) : StationColours(i) = {RampColour(i)}

\* a wall of three stations or more has been coloured, neighbouring
\* stations differently
C20_Witness ==
    /\ calc.done
    /\ calc.fn = "applyStressOverlay"
    /\ calc.arg.nStations >= 3
    /\ \A i \in 0..(calc.arg.nStations - 2) : StationColours(i) # StationColours(i + 1)

----------------------------------------------------------------------------
(* Clear operations *)

\* everything but the history of the running handler
RenderState(s) == [s EXCEPT !.hist = InitState.hist]

\* no exception and no second dispose() in the calls made from s
Failures(s) == <<s.hist.threw, s.hist.doubleDisposed>>

HeatNeverActive == heat.originalMaterial = NullRes /\ heat.heatMaterial = NullRes

StressNeverActive == stress.originalMaterial = NullRes /\ stress.stressMaterial = NullRes

FlowNotActive == ~fviz.flowColorsApplied /\ fviz.coolantArrows = NullArrows

CoolingNotActive ==
    /\ ~cool.channelShaderActive
    /\ cool.channelMaterial = NullRes /\ cool.coolantTexture = NullRes
    /\ cool.cutawayGroup = NullGroup /\ cool.crossSectionGroup = NullGroup
    /\ cool.clippedMaterials = <<>>

\* C13: each clear operation changes nothing and fails nowhere when its
\* overlay was never activated, and a second call in a row leaves the state
\* of the first call, without an error and without a second dispose().
C13_ClearsSafeAndIdempotent ==
    LET s == Begin(S)
        heat1 == clearHeatMap(s)
        stress1 == clearStressOverlay(s)
        flow1 == clearFlowViz(s)
        cool1 == clearCoolingViz(s)
    IN  /\ HeatNeverActive =>
              RenderState(heat1) = RenderState(s) /\ Failures(heat1) = Failures(s)
        /\ StressNeverActive =>
              RenderState(stress1) = RenderState(s) /\ Failures(stress1) = Failures(s)
        /\ FlowNotActive =>
              RenderState(flow1) = RenderState(s) /\ Failures(flow1) = Failures(s)
        /\ CoolingNotActive =>
              RenderState(cool1) = RenderState(s) /\ Failures(cool1) = Failures(s)
        /\ RenderState(clearHeatMap(heat1)) = RenderState(heat1)
        /\ Failures(clearHeatMap(heat1)) = Failures(heat1)
        /\ RenderState(clearStressOverlay(stress1)) = RenderState(stress1)
        /\ Failures(clearStressOverlay(stress1)) = Failures(stress1)
        /\ RenderState(clearFlowViz(flow1)) = RenderState(flow1)
        /\ Failures(clearFlowViz(flow1)) = Failures(flow1)
        /\ RenderState(clearCoolingViz(cool1)) = RenderState(cool1)
        /\ Failures(clearCoolingViz(cool1)) = Failures(cool1)

\* the cooling overlay is up with its cutaway and cross-section while the
\* heat overlay has never been activated, and the clears have run
C13_Witness ==
    /\ Called("clearHeatMap") /\ Called("clearFlowViz")
    /\ HeatNeverActive
    /\ cool.channelShaderActive
    /\ cool.cutawayGroup # NullGroup /\ cool.crossSectionGroup # NullGroup
    /\ RenderState(clearCoolingViz(Begin(S))) # RenderState(Begin(S))

----------------------------------------------------------------------------
(* Cooling cutaway and cross-section *)

\* the resources of a set that do not belong to the cross-section ring
NotRing(rids) ==
    {rid \in rids :
        rid[1] \notin {"sectionGeo", "sectionMat", "sectionArcGeo", "sectionArcMat"}}

\* C14: a move of the section slider disposes and rebuilds only the
\* cross-section ring: the cutaway group, the clipping plane, the clipped
\* materials, the channel shader material and the coolant texture stay as
\* they are, no resource outside the ring is created or disposed, and with
\* cooling enabled and a mesh and a tick at hand the ring is in the scene
\* again, undisposed.
C14_SliderRebuildsOnlyRing ==
    [][SectionSliderInput =>
          /\ cool.cutawayGroup' = cool.cutawayGroup
          /\ cool.clippingPlane' = cool.clippingPlane
          /\ cool.localClippingEnabled' = cool.localClippingEnabled
          /\ cool.clippedMaterials' = cool.clippedMaterials
          /\ cool.clipOn' = cool.clipOn
          /\ cool.channelMaterial' = cool.channelMaterial
          /\ cool.coolantTexture' = cool.coolantTexture
          /\ mesh' = mesh
          /\ NotRing(gpu.live)' = NotRing(gpu.live)
          /\ NotRing(gpu.disposed)' = NotRing(gpu.disposed)
          /\ NotRing(scene \ {<<"crossSectionGroup", 0, 0>>})'
                 = NotRing(scene \ {<<"crossSectionGroup", 0, 0>>})
          /\ hist.doubleDisposed' = {}
          /\ (/\ app.vizMode = "cooling"
              /\ ui.cooling.enabled
              /\ ~app.lastMeshData.null
              /\ ~app.lastSimData.null) =>
                /\ cool.crossSectionGroup' =
                       buildCrossSectionRing(ui.cooling.n_channels, CoolantAt(app.lastSimData))
                /\ <<"crossSectionGroup", 0, 0>> \in scene'
                /\ \A k \in 1..Len(CrossSectionChildren(cool.crossSectionGroup')) :
                       \A r \in 1..2 :
                          CrossSectionChildren(cool.crossSectionGroup')[k][r] \in gpu.live']_vars

\* the slider has moved in Cooling mode with the cutaway up, and the ring
\* was rebuilt
C14_Witness ==
    /\ hist.calls = <<"showCrossSection">>
    /\ app.vizMode = "cooling"
    /\ cool.cutawayGroup # NullGroup
    /\ cool.crossSectionGroup # NullGroup
    /\ cool.clippedMaterials # <<>>

\* the geometries and materials of the two groups of a state
GroupResources(s) ==
    LET cut == IF s.cool.cutawayGroup = NullGroup THEN <<>>
               ELSE CutawayChildren(s.cool.cutawayGroup)
        ring == IF s.cool.crossSectionGroup = NullGroup THEN <<>>
                ELSE CrossSectionChildren(s.cool.crossSectionGroup)
    IN  {(cut \o ring)[k][r] : k \in 1..(Len(cut) + Len(ring)), r \in 1..2}

\* C15: after clearCoolingViz no material carries the clipping plane, the
\* renderer's local clipping is off, the cutaway group and the cross-section
\* group are out of the scene, every geometry and material they held is
\* disposed, and the stored references are null.
C15_ClearRestoresClipping ==
    LET s == Begin(S)
        t == clearCoolingViz(s)
    IN  /\ t.cool.clipOn = {}
        /\ t.cool.clippedMaterials = <<>>
        /\ ~t.cool.clippingPlane
        /\ ~t.cool.localClippingEnabled
        /\ t.cool.cutawayGroup = NullGroup
        /\ t.cool.crossSectionGroup = NullGroup
        /\ t.scene \cap {<<"cutawayGroup", 0, 0>>, <<"crossSectionGroup", 0, 0>>} = {}
        /\ GroupResources(s) \cap t.gpu.live = {}
        /\ GroupResources(s) \subseteq t.gpu.disposed
        /\ ~t.hist.threw

\* the cutaway and the ring are up, the plane is on the engine's materials
C15_Witness ==
    /\ cool.cutawayGroup # NullGroup /\ cool.cutawayGroup.children > 0
    /\ cool.crossSectionGroup # NullGroup
    /\ Len(cool.clippedMaterials) >= 3
    /\ cool.clipOn # {}
    /\ cool.localClippingEnabled
    /\ GroupResources(S) \subseteq gpu.live
    /\ {<<"cutawayGroup", 0, 0>>, <<"crossSectionGroup", 0, 0>>} \subseteq scene

\* Cooling mode has just been applied from a tick without T_coolant_K
CoolingShownWithoutTemperatures ==
    /\ app.vizMode = "cooling"
    /\ ui.cooling.enabled
    /\ Called("showCoolingViz")
    /\ Called("showCrossSection")
    /\ ~app.lastSimData.null
    /\ ~(app.lastSimData.cooling /\ app.lastSimData.T_coolant)

\* C16: Cooling mode applied from a tick without a coolant-temperature
\* array does not fail; the channel shader, put on the outer mesh where
\* there is one, is told there is no coolant data, the channel band of the cutaway has the flat colour and no vertex
\* colours, and the channel arcs of the cross-section have the neutral
\* default colour.
C16_NoTemperaturesFlatColours ==
    CoolingShownWithoutTemperatures =>
        /\ ~hist.threw
        /\ mesh.outerMesh # NoObj =>
              /\ cool.channelShaderActive
              /\ OuterMaterial(S) = cool.channelMaterial
        /\ ~cool.hasCoolantData
        /\ cool.cutawayGroup # NullGroup
        /\ cool.cutawayGroup.children > 0 =>
              cool.cutawayGroup.channelMat =
                  [vertexColors |-> FALSE, color |-> <<FlatChannelColor>>]
        /\ cool.crossSectionGroup # NullGroup
        /\ cool.crossSectionGroup.arcs > 0
        /\ cool.crossSectionGroup.channelMat =
               [vertexColors |-> FALSE, color |-> <<NeutralArcColor>>]

\* both kinds of tick without the array have been applied to a cutaway
\* that has a channel band
C16_Witness ==
    /\ CoolingShownWithoutTemperatures
    /\ app.lastSimData.cooling
    /\ cool.cutawayGroup.children > 0
    /\ mesh.outerMesh # NoObj
    /\ OuterMaterial(S) = cool.channelMaterial

----------------------------------------------------------------------------
(* Channel arcs *)

\* q < 710 / 113, which every q < 2 * pi is (pi < 355 / 113)
BelowTwoPi(q) == q.num * 113 < 710 * q.den

\* C17: for a cooling configuration with a positive rib width the angular
\* spans of the channel arcs of a ring add up to less than 2 * pi less the
\* span of one rib.
C17_ChannelArcsFitTheRing ==
    (calc.fn = "buildCrossSectionRing" /\ calc.done /\ calc.arg.cooling.rib_width > 0) =>
        BelowTwoPi([num |-> calc.out.nCh * calc.out.chAngle.num + calc.out.ribAngle.num,
                    den |-> calc.out.chAngle.den])

----------------------------------------------------------------------------
(* Plume half-angle *)

\* the half-angle of the same exhaust at another exit pressure
HalfAngleAt(Pe) == recomputeDerived([calc.arg EXCEPT !.exit_pressure_Pa = Pe])

RatioAt(Pe) == PressureRatio(Pe, calc.arg.ambient_pressure_Pa)

\* C18 as stated: at a fixed exit Mach a greater pressure ratio gives a
\* strictly greater half-angle, among the ratios above 1.0 and among the
\* ratios below 1.0.
C18_HalfAngleStrictlyMonotone ==
    (calc.fn = "recomputeDerived" /\ calc.done) =>
        \A Pe \in ExitPressures :
            LET r1 == RatioAt(calc.arg.exit_pressure_Pa)
                r2 == RatioAt(Pe)
            IN  (r1 < r2 /\ (r1 > 100 \/ r2 < 100)) => calc.out < HalfAngleAt(Pe)

\* C18, amended: at a fixed exit Mach the half-angle never decreases as the
\* pressure ratio grows; it grows strictly above 1.0 as long as the lesser
\* ratio is below e^3.75 = 42.52, where the widening reaches its cap of 2.5,
\* and below 1.0 as long as the greater ratio is above 0.3, where the
\* narrowing reaches its floor of 0.15.
C18_HalfAngleMonotoneBetweenCaps ==
    (calc.fn = "recomputeDerived" /\ calc.done) =>
        \A Pe \in ExitPressures :
            LET r1 == RatioAt(calc.arg.exit_pressure_Pa)
                r2 == RatioAt(Pe)
            IN  /\ r1 < r2 => calc.out <= HalfAngleAt(Pe)
                /\ (r1 < r2 /\ r1 > 100 /\ r1 < 4252) => calc.out < HalfAngleAt(Pe)
                /\ (r1 < r2 /\ r2 <= 100 /\ r2 > 30) => calc.out < HalfAngleAt(Pe)

\* the half-angle of an underexpanded jet below the cap was computed, and
\* the exhaust has a greater ratio beyond the cap to compare it with
C18_Witness ==
    /\ calc.fn = "recomputeDerived" /\ calc.done
    /\ RatioAt(calc.arg.exit_pressure_Pa) > 100
    /\ RatioAt(calc.arg.exit_pressure_Pa) < 4252
    /\ calc.out > asin_reciprocal(Max(calc.arg.exit_mach, 101))
    /\ \E Pe \in ExitPressures : RatioAt(Pe) > 4252

----------------------------------------------------------------------------
(* Injector face *)

\* every orifice of the call lies entirely outside the face
AllOrificesOutside ==
    /\ Len(calc.arg.orifices) > 0
    /\ \A k \in 1..Len(calc.arg.orifices) :
          LET o == calc.arg.orifices[k]
              reach == calc.arg.faceRadius + o.radius
          IN  o.y * o.y + o.z * o.z >= reach * reach

\* C19: an injector face built with orifices that all lie entirely outside
\* the face has the vertex count and the triangle count of the face built
\* with no orifices, and no cell of it is skipped.
C19_OutsideOrificesLeaveTheFace ==
    (calc.fn = "injectorFace" /\ calc.done /\ AllOrificesOutside) =>
        LET plain == InjectorFace(calc.arg.faceRadius, <<>>, calc.arg.segments)
        IN  /\ calc.out.vertices = plain.vertices
            /\ calc.out.triangles = plain.triangles
            /\ calc.out.skipped = 0

----------------------------------------------------------------------------
(* Particle systems *)

PlumeSystems == {x \in scene : x[1] = "flame"}
FlowSystems == {x \in scene : x[1] = "internalFlow"}

ParticleNames ==
    {"flameGeo", "flameMat", "flowGeo", "flowMat", "flowRadiusTex", "flowVelocityTex",
     "flowTemperatureTex", "flowStationXTex"}

\* C21: once a mesh_update has arrived the scene holds exactly one plume
\* system and exactly one internal-flow system, and the geometry, material
\* and textures of every system that was replaced have been disposed: the
\* live particle resources are those of the two systems in the scene.
C21_OneParticleSystemEach ==
    /\ Cardinality(PlumeSystems) <= 1
    /\ Cardinality(FlowSystems) <= 1
    /\ mesh.builds > 0 =>
          /\ PlumeSystems = {<<"flame", 0, 0>>}
          /\ FlowSystems = {<<"internalFlow", 0, 0>>}
          /\ flame.particleSystem /\ iflow.particleSystem
    /\ {rid \in gpu.live : rid[1] \in ParticleNames}
           = (IF flame.particleSystem THEN {FlameGeo, FlameMat} ELSE {})
             \cup (IF iflow.particleSystem THEN Range(FlowResources) ELSE {})
    /\ {rid \in hist.lost \cup hist.doubleDisposed : rid[1] \in ParticleNames} = {}

----------------------------------------------------------------------------
(* Internal flow: who advances the particles *)

Count(name) == Cardinality({k \in 1..Len(hist.calls) : hist.calls[k] = name})

\* lifetimes[i] += dt * 0.6, wrapped at 1.0
FrameAdvance(lifetimes) ==
    [i \in DOMAIN lifetimes |-> FlowWrap(lifetimes[i] + (6 * FlowDt) \div 10)]

\* C22 as stated: every sim tick runs updateInternalFlow exactly once.
C22_UpdateOnEveryTick ==
    Called("onSimTick") => Count("updateInternalFlow") = 1

\* C22: a sim tick runs updateInternalFlow once when mesh data are present
\* and the tick carries the station Mach array, and not at all otherwise; no
\* other handler runs it, the render loop included.
\* advanceInternalFlowParticles runs only from the render loop, once in a
\* frame, and exactly in the frames where the mode is Flow and the simulation
\* is running; while a particle system exists it adds the same increment
\* dt * 0.6 to every lifetime, whatever the station data are, and it changes
\* nothing else of the internal flow.
C22_WhoAdvancesTheFlow ==
    [][/\ Called("onSimTick")' =>
             Count("updateInternalFlow")' =
                 IF ~app.lastMeshData.null /\ app'.lastSimData.mach THEN 1 ELSE 0
       /\ Count("updateInternalFlow")' > 0 =>
             Called("onSimTick")' /\ Count("advanceInternalFlowParticles")' = 0
       /\ Called("onAnimate")' =>
             /\ Count("advanceInternalFlowParticles")' =
                    IF app.vizMode = "flow" /\ app.simRunning THEN 1 ELSE 0
             /\ iflow' = [iflow EXCEPT !.lifetimes =
                              IF /\ Count("advanceInternalFlowParticles")' = 1
                                 /\ iflow.particleSystem
                              THEN FrameAdvance(@) ELSE @]
       /\ Count("advanceInternalFlowParticles")' > 0 => Called("onAnimate")'
      ]_vars

\* a frame in Flow mode has advanced two particles or more at different
\* places of the chamber, after a data tick set the station velocities
C22_Witness ==
    /\ Count("advanceInternalFlowParticles") = 1
    /\ iflow.particleSystem /\ iflow.maxVelocity > 1
    /\ app.lastSimData.mach
    /\ \E i, j \in DOMAIN iflow.lifetimes : iflow.lifetimes[i] > iflow.lifetimes[j]

----------------------------------------------------------------------------
(* Injector face: the resolution of the polar grid *)

\* the smallest orifice radius of the call
MinOrificeRadius ==
    SeqMin([k \in 1..Len(calc.arg.orifices) |-> calc.arg.orifices[k].radius])

\* C23: a face built with orifices has nRadial in [40, 120] and nAngular in
\* [segments, 512], and its cells, faceRadius / nRadial long and
\* 2 * PI * faceRadius / nAngular wide, are no larger than the smallest
\* orifice radius (PI taken as 355 / 113).
C23_CellsNoLargerThanOrifices ==
    (calc.fn = "injectorFace" /\ calc.done /\ Len(calc.arg.orifices) > 0) =>
        /\ calc.out.nRadial \in 40..120
        /\ calc.out.nAngular \in calc.arg.segments..512
        /\ calc.arg.faceRadius <= calc.out.nRadial * MinOrificeRadius
        /\ 710 * calc.arg.faceRadius <= 113 * calc.out.nAngular * MinOrificeRadius

----------------------------------------------------------------------------
(* The outer wall's material across rebuilds *)

\* C24: the outer wall mesh never carries the base material of an earlier
\* mesh, and in mode None it carries the material buildEngineMesh created for
\* the current mesh.
C24_NoMaterialOfPreviousMesh ==
    mesh.outerMesh # NoObj =>
        /\ \A g \in 1..MaxBuilds :
              g # mesh.outerMesh => mesh.outer.material # OuterMat(g)
        /\ app.vizMode = "normal" => mesh.outer.material = OuterMat(mesh.outerMesh)

----------------------------------------------------------------------------
(* WSClient *)

\* sockets that are connecting or open; each carries the client's handlers
LiveSockets == {k \in DOMAIN ws.sockets : ws.sockets[k] \in {"connecting", "open"}}

\* C25: at most one socket of the client is connecting or open, and at most
\* one reconnect timer is pending.
C25_OneSocketOneTimer ==
    /\ Cardinality(LiveSockets) <= 1
    /\ ws.timers <= 1

C27_NoSocketWhileDisconnected ==
    [][(~ws.shouldReconnect /\ ws'.op # "connect") =>
           /\ Len(ws'.sockets) = Len(ws.sockets)
           /\ ws'.ws = ws.ws
           /\ ws'.timers <= ws.timers
      ]_vars

\* after disconnect() a pending timer has expired without a new socket
C27_Witness ==
    /\ ~ws.shouldReconnect
    /\ ws.op = "timer"
    /\ ws.urlAccepted /\ Len(ws.sockets) > 0
    /\ \A k \in DOMAIN ws.sockets : ws.sockets[k] = "closed"

\* C28: a message that parses invokes every callback registered for its type
\* and not removed, once and in the order of registration, whether or not one
\* of them throws.
C28_EveryHandlerInvoked ==
    (ws.op = "message" /\ ws.msg.parsed) => ws.delivered = ws.handlers[ws.msg.type]

----------------------------------------------------------------------------
(* debounce *)

\* C29: a call of the debounced function never invokes fn itself and leaves
\* exactly one timeout pending, which carries its arguments; the timeout
\* invokes fn with the arguments of the last call, ms or more after that
\* call; fn is invoked at most once after the last call, so a burst of calls
\* less than ms apart ends in one invocation.
C29_OneTrailingInvocation ==
    /\ [](/\ deb.fired <= 1
          /\ Cardinality(deb.timers) <= 1
          /\ (deb.last # "none" /\ deb.fired = 0) =>
                \E t \in deb.timers :
                    t.args = deb.last /\ t.id = deb.timer /\ t.left + deb.age >= deb.ms
          /\ deb.fired = 1 => deb.timers = {})
    /\ [][/\ deb'.op = "call" => (deb'.out = deb.out /\ deb'.outAge = deb.outAge)
          /\ deb'.op = "timeout" =>
                (deb'.out = deb.last /\ deb'.outAge >= deb.ms /\ deb.fired = 0)
          /\ deb'.op = "time" => deb'.fired = deb.fired
         ]_vars

\* a burst of two calls or more has ended in the invocation of fn
C29_Witness ==
    /\ deb.op = "timeout"
    /\ deb.burst = 2 /\ deb.fired = 1
    /\ deb.ms = 2 /\ deb.outAge = 2
    /\ deb.out = "30"

----------------------------------------------------------------------------
(* Visibility of the internal flow *)

\* C30: the internal-flow particle system is visible only while the
\* simulation is running and the mode is Flow.
C30_FlowVisibleOnlyWhenRunningInFlowMode ==
    (iflow.particleSystem /\ iflow.visible) => (app.simRunning /\ app.vizMode = "flow")

====
